---------------------------- MODULE Spec2Model ----------------------------
(***************************************************************************)
(* Model of the CSV data-cleaning engine of langchain-retrieval-chat       *)
(* (the agents route: validateCSVData, parseCsvRow, parseCSV, formatCSV,   *)
(* generateDownloadableFile, CSVDataProcessor._call, sanitizeInputs, POST  *)
(* and its request-scoped CustomCSVDataProcessor).                         *)
(*                                                                         *)
(* A JavaScript string is a sequence of one-character strings.  An         *)
(* optional parameter is a record [def, v]: def = FALSE is undefined.      *)
(***************************************************************************)
EXTENDS Integers, Sequences, FiniteSets, TLC

VARIABLES
  pc,          \* position of the run: which handler acts next
  headers,     \* round trip: the table's header cells
  data,        \* round trip: the table's rows
  csvText,     \* round trip: formatCSV's output
  parsed,      \* round trip: parseCSV's output
  raw,         \* validator run: the payload, run-length encoded
  verdict,     \* validator run: validateCSVData's return value
  body,        \* POST: the request body as the client sent it
  csvData,     \* POST: sanitizedBody.csvData, captured by the tool's closure
  response,    \* POST: the response sent, status 0 while none
  input,       \* tool: the input of the last _call
  result,      \* tool: the value the last _call returned
  prev,        \* tool: the input and result of the call before it
  calls,       \* tool: number of _call invocations so far
  trace,       \* validateCSVData / parseCSV invocations of the run, in order
  fault,       \* tool: a runtime error is raised inside the operation
  reqs,        \* concurrent run: the requests in flight, each with its own state
  requests,    \* rateLimiter.requests, the process-wide map
  scan,        \* scanner run: the locals of parseCsvRow's loop
  now,         \* limiter run: Date.now()
  ticks,       \* limiter run: how often the clock has advanced
  limits,      \* limiter run: the maxRequests and windowMs the callers pass
  last,        \* limiter run: the last rateLimiter call and what it returned
  logged,      \* limiter run: every request logged so far, caller and time
  uploaded     \* upload run: the file handed to handleCSVUploaded, its outcome

vars == <<pc, headers, data, csvText, parsed, raw, verdict, body, csvData,
          response, input, result, prev, calls, trace, fault, reqs, requests,
          scan, now, ticks, limits, last, logged, uploaded>>

-----------------------------------------------------------------------------
(* Characters and JavaScript string primitives                             *)

QUOTE == "\""
COMMA == ","
NL == "\n"
SP == " "
PIPE == "|"

\* the white space String.prototype.trim removes (of the model's alphabet)
IsSpace(c) == c \in {" ", "\n", "\t", "\r"}

RECURSIVE TrimLeft(_)
TrimLeft(s) ==
  IF s = <<>> THEN s
  ELSE IF IsSpace(Head(s)) THEN TrimLeft(Tail(s)) ELSE s

RECURSIVE TrimRight(_)
TrimRight(s) ==
  IF s = <<>> THEN s
  ELSE IF IsSpace(s[Len(s)]) THEN TrimRight(SubSeq(s, 1, Len(s) - 1)) ELSE s

\* String.prototype.trim
Trim(s) == TrimRight(TrimLeft(s))

\* String.prototype.split on a one-character separator: never an empty array
RECURSIVE Split(_, _)
Split(s, sep) ==
  LET idx == {i \in 1..Len(s) : s[i] = sep} IN
  IF idx = {} THEN <<s>>
  ELSE LET i == CHOOSE j \in idx : \A k \in idx : j <= k IN
       <<SubSeq(s, 1, i - 1)>> \o Split(SubSeq(s, i + 1, Len(s)), sep)

\* Array.prototype.join: the empty array joins to the empty string
RECURSIVE Join(_, _)
Join(parts, sep) ==
  IF parts = <<>> THEN <<>>
  ELSE IF Len(parts) = 1 THEN parts[1]
  ELSE parts[1] \o sep \o Join(Tail(parts), sep)

\* the concatenation of a sequence of sequences
RECURSIVE Concat(_)
Concat(parts) == IF parts = <<>> THEN <<>> ELSE Head(parts) \o Concat(Tail(parts))

\* String.prototype.includes
Includes(s, sub) ==
  \E i \in 1..(Len(s) - Len(sub) + 1) : SubSeq(s, i, i + Len(sub) - 1) = sub

\* String.prototype.endsWith
EndsWith(s, suffix) ==
  /\ Len(suffix) <= Len(s)
  /\ SubSeq(s, Len(s) - Len(suffix) + 1, Len(s)) = suffix

\* Array.prototype.map
Map(f(_), s) == [i \in 1..Len(s) |-> f(s[i])]

\* Array.prototype.includes
Contains(s, x) == \E i \in 1..Len(s) : s[i] = x

\* Array.prototype.indexOf, 0-based, -1 when absent
IndexOf(s, x) ==
  IF Contains(s, x)
  THEN (CHOOSE i \in 1..Len(s) : s[i] = x /\ \A j \in 1..(i - 1) : s[j] # x) - 1
  ELSE -1

\* an optional parameter: undefined, or a value
None == [def |-> FALSE, v |-> <<>>]
Some(x) == [def |-> TRUE, v |-> x]
\* JavaScript truthiness of an optional string: undefined and "" are falsy
Truthy(o) == o.def /\ o.v # <<>>

-----------------------------------------------------------------------------
(* Parser and serializer                                                   *)

\* the scanner loop of parseCsvRow: i is the 1-based position of char
RECURSIVE ScanRow(_, _, _, _, _)
ScanRow(rowString, i, fields, currentField, inQuotes) ==
  IF i > Len(rowString) THEN Append(fields, Trim(currentField))
  ELSE LET char == rowString[i] IN
    IF char = QUOTE
    THEN IF inQuotes /\ i + 1 <= Len(rowString) /\ rowString[i + 1] = QUOTE
         THEN ScanRow(rowString, i + 2, fields, Append(currentField, QUOTE), inQuotes)
         ELSE ScanRow(rowString, i + 1, fields, currentField, ~inQuotes)
    ELSE IF char = COMMA /\ ~inQuotes
         THEN ScanRow(rowString, i + 1, Append(fields, Trim(currentField)), <<>>, inQuotes)
         ELSE ScanRow(rowString, i + 1, fields, Append(currentField, char), inQuotes)

parseCsvRow(rowString) == ScanRow(rowString, 1, <<>>, <<>>, FALSE)

\* a parser that gives up at the first line of another field count
parseCSV_StopAtMalformed(csvString) ==
  LET lines == Split(Trim(csvString), NL)
      hs == parseCsvRow(lines[1])
      rows == Map(parseCsvRow, Tail(lines))
      bad == {i \in 1..Len(rows) : Len(rows[i]) # Len(hs)}
      stop == IF bad = {} THEN Len(rows) + 1
              ELSE CHOOSE i \in bad : \A j \in bad : i <= j
  IN [headers |-> hs, data |-> SubSeq(rows, 1, stop - 1)]

parseCSV(csvString) ==
  LET lines == Split(Trim(csvString), NL)
  IN IF Len(lines) = 0 THEN [headers |-> <<>>, data |-> <<>>]
     ELSE LET hs == parseCsvRow(lines[1])
              rows == Map(parseCsvRow, Tail(lines))
              consistentData == SelectSeq(rows, LAMBDA row : Len(row) = Len(hs))
          IN [headers |-> hs, data |-> consistentData]

\* cell.replace(/"/g, '""')
RECURSIVE DoubleQuotes(_)
DoubleQuotes(s) ==
  IF s = <<>> THEN <<>>
  ELSE (IF Head(s) = QUOTE THEN <<QUOTE, QUOTE>> ELSE <<Head(s)>>)
       \o DoubleQuotes(Tail(s))

\* `"${cell.replace(/"/g, '""')}"`
QuoteCell(cell) == <<QUOTE>> \o DoubleQuotes(cell) \o <<QUOTE>>

formatCSV(hs, rows) ==
  LET headerRow == Join(Map(QuoteCell, hs), <<COMMA>>)
      dataRows == Map(LAMBDA row : Join(Map(QuoteCell, row), <<COMMA>>), rows)
  IN Join(<<headerRow>> \o dataRows, <<NL>>)

-----------------------------------------------------------------------------
(* Validator.  Its payload is run-length encoded, a sequence of runs       *)
(* [ch, n] (n >= 1 copies of the character ch), so that a payload beyond   *)
(* the size, column and row ceilings is one small value.                   *)

MaxSizeMB == 15
MaxColumns == 1000
MaxLines == 200000

\* the runs of a string held character by character
RunsOf(s) == [i \in 1..Len(s) |-> [ch |-> s[i], n |-> 1]]

\* csvData.length
RECURSIVE RunsLength(_)
RunsLength(runs) ==
  IF runs = <<>> THEN 0 ELSE Head(runs).n + RunsLength(Tail(runs))

RECURSIVE TrimRunsLeft(_)
TrimRunsLeft(runs) ==
  IF runs = <<>> THEN runs
  ELSE IF IsSpace(Head(runs).ch) THEN TrimRunsLeft(Tail(runs)) ELSE runs

RECURSIVE TrimRunsRight(_)
TrimRunsRight(runs) ==
  IF runs = <<>> THEN runs
  ELSE IF IsSpace(runs[Len(runs)].ch)
       THEN TrimRunsRight(SubSeq(runs, 1, Len(runs) - 1)) ELSE runs

\* csvData.trim()
TrimRuns(runs) == TrimRunsRight(TrimRunsLeft(runs))

\* number of occurrences of the character c
RECURSIVE CountChar(_, _)
CountChar(runs, c) ==
  IF runs = <<>> THEN 0
  ELSE (IF Head(runs).ch = c THEN Head(runs).n ELSE 0) + CountChar(Tail(runs), c)

\* lines[0] of split('\n')
RECURSIVE FirstLine(_)
FirstLine(runs) ==
  IF runs = <<>> \/ Head(runs).ch = NL THEN <<>>
  ELSE <<Head(runs)>> \o FirstLine(Tail(runs))

LowerOf ==
  [A |-> "a", B |-> "b", C |-> "c", D |-> "d", E |-> "e", F |-> "f", G |-> "g",
   H |-> "h", I |-> "i", J |-> "j", K |-> "k", L |-> "l", M |-> "m", N |-> "n",
   O |-> "o", P |-> "p", Q |-> "q", R |-> "r", S |-> "s", T |-> "t", U |-> "u",
   V |-> "v", W |-> "w", X |-> "x", Y |-> "y", Z |-> "z"]

\* the /i flag: letters compare by their lower-case form
Lower(c) == IF c \in DOMAIN LowerOf THEN LowerOf[c] ELSE c

LowerText(s) == Map(Lower, s)

\* dangerousPatterns, each a literal (no regex operator but the escaped
\* parenthesis and dot), in lower case
dangerousPatterns ==
  << <<"<", "s", "c", "r", "i", "p", "t">>,
     <<"j", "a", "v", "a", "s", "c", "r", "i", "p", "t", ":">>,
     <<"e", "v", "a", "l", "(">>,
     <<"f", "u", "n", "c", "t", "i", "o", "n", "(">>,
     <<"s", "e", "t", "t", "i", "m", "e", "o", "u", "t">>,
     <<"d", "o", "c", "u", "m", "e", "n", "t", ".">> >>

\* the longest literal a pattern can match
PatternSpan(patterns) ==
  CHOOSE m \in {Len(patterns[i]) : i \in 1..Len(patterns)} :
    \A i \in 1..Len(patterns) : Len(patterns[i]) <= m

\* the characters of the runs, a run longer than cap cut to cap characters:
\* a literal of at most cap characters occurs in the one iff in the other
RECURSIVE Expand(_, _)
Expand(runs, cap) ==
  IF runs = <<>> THEN <<>>
  ELSE LET r == Head(runs)
           k == IF r.n > cap THEN cap ELSE r.n
       IN [i \in 1..k |-> r.ch] \o Expand(Tail(runs), cap)

\* pattern.test(csvData) for a literal pattern with the /i flag
PatternTest(pattern, runs, cap) ==
  Includes(LowerText(Expand(runs, cap)), pattern)

Valid == [valid |-> TRUE, error |-> ""]
Invalid(e) == [valid |-> FALSE, error |-> e]

\* validateCSVData with the row check moved before the column check
validateCSVData_RowsFirst(runs) ==
  IF runs = <<>> \/ TrimRuns(runs) = <<>> THEN Invalid("Empty CSV data")
  ELSE IF RunsLength(runs) > MaxSizeMB * (1024 * 1024)
  THEN Invalid("CSV data too large")
  ELSE LET lineCount == CountChar(TrimRuns(runs), NL) + 1
           headerCount == CountChar(FirstLine(TrimRuns(runs)), COMMA) + 1
       IN IF lineCount > MaxLines THEN Invalid("Too many rows (max: 200,000)")
          ELSE IF headerCount > MaxColumns THEN Invalid("Too many columns (max: 1000)")
          ELSE IF \E i \in 1..Len(dangerousPatterns) :
                    PatternTest(dangerousPatterns[i], runs, PatternSpan(dangerousPatterns))
          THEN Invalid("CSV contains potentially unsafe content")
          ELSE Valid

validateCSVData(runs) ==
  IF runs = <<>> \/ TrimRuns(runs) = <<>> THEN Invalid("Empty CSV data")
  ELSE IF RunsLength(runs) > MaxSizeMB * (1024 * 1024)
  THEN Invalid("CSV data too large")
  ELSE LET lineCount == CountChar(TrimRuns(runs), NL) + 1
           headerCount == CountChar(FirstLine(TrimRuns(runs)), COMMA) + 1
       IN IF lineCount < 1 THEN Invalid("CSV must have at least a header row")
          ELSE IF headerCount = 0 THEN Invalid("No columns detected in CSV")
          ELSE IF headerCount > MaxColumns THEN Invalid("Too many columns (max: 1000)")
          ELSE IF lineCount > MaxLines THEN Invalid("Too many rows (max: 200,000)")
          ELSE IF \E i \in 1..Len(dangerousPatterns) :
                    PatternTest(dangerousPatterns[i], runs, PatternSpan(dangerousPatterns))
          THEN Invalid("CSV contains potentially unsafe content")
          ELSE Valid

-----------------------------------------------------------------------------
(* Download encoder                                                        *)

\* the printable ASCII characters, from code 32 (space) to code 126 (the
\* grave accent, code 96, is spelled out: no string of the model holds it)
PrintableAscii ==
  <<
     " ", "!", "\"", "#", "$", "%", "&", "'", "(", ")", "*", "+",
     ",", "-", ".", "/", "0", "1", "2", "3", "4", "5", "6", "7",
     "8", "9", ":", ";", "<", "=", ">", "?", "@", "A", "B", "C",
     "D", "E", "F", "G", "H", "I", "J", "K", "L", "M", "N", "O",
     "P", "Q", "R", "S", "T", "U", "V", "W", "X", "Y", "Z", "[",
     "\\", "]", "^", "_", "grave", "a", "b", "c", "d", "e", "f", "g",
     "h", "i", "j", "k", "l", "m", "n", "o", "p", "q", "r", "s",
     "t", "u", "v", "w", "x", "y", "z", "{", "|", "}", "~" >>

\* the UTF-8 byte of a character (all characters of the model are ASCII)
CharCode(c) ==
  IF c = "\n" THEN 10
  ELSE IF c = "\t" THEN 9
  ELSE IF c = "\r" THEN 13
  ELSE 31 + CHOOSE i \in 1..Len(PrintableAscii) : PrintableAscii[i] = c

\* Buffer.from(csvData)
Utf8(s) == Map(CharCode, s)

Base64Alphabet ==
  <<
     "A", "B", "C", "D", "E", "F", "G", "H", "I", "J", "K", "L", "M", "N", "O", "P",
     "Q", "R", "S", "T", "U", "V", "W", "X", "Y", "Z", "a", "b", "c", "d", "e", "f",
     "g", "h", "i", "j", "k", "l", "m", "n", "o", "p", "q", "r", "s", "t", "u", "v",
     "w", "x", "y", "z", "0", "1", "2", "3", "4", "5", "6", "7", "8", "9", "+", "/" >>

Base64Digit(k) == Base64Alphabet[k + 1]

\* buffer.toString('base64'): three bytes become four digits, padded with =
RECURSIVE Base64(_)
Base64(bytes) ==
  IF bytes = <<>> THEN <<>>
  ELSE IF Len(bytes) = 1
  THEN << Base64Digit(bytes[1] \div 4), Base64Digit((bytes[1] % 4) * 16), "=", "=" >>
  ELSE IF Len(bytes) = 2
  THEN << Base64Digit(bytes[1] \div 4),
          Base64Digit((bytes[1] % 4) * 16 + bytes[2] \div 16),
          Base64Digit((bytes[2] % 16) * 4), "=" >>
  ELSE << Base64Digit(bytes[1] \div 4),
          Base64Digit((bytes[1] % 4) * 16 + bytes[2] \div 16),
          Base64Digit((bytes[2] % 16) * 4 + bytes[3] \div 64),
          Base64Digit(bytes[3] % 64) >>
       \o Base64(SubSeq(bytes, 4, Len(bytes)))

\* a data URI `data:${mime};base64,${base64}`; the empty string is NoLink
NoLink == [mime |-> "", base64 |-> <<>>]

generateDownloadableFile(csv, format) ==
  IF format = "csv"
  THEN [mime |-> "text/csv", base64 |-> Base64(Utf8(csv))]
  ELSE IF format = "excel"
  THEN [mime |-> "application/vnd.ms-excel", base64 |-> Base64(Utf8(csv))]
  ELSE NoLink

-----------------------------------------------------------------------------
(* Numbers.  A JavaScript number is a record [nan, v]; the numbers the     *)
(* model's cells hold are integers.                                        *)

DigitChars == <<"0", "1", "2", "3", "4", "5", "6", "7", "8", "9">>
IsDigit(c) == \E i \in 1..10 : DigitChars[i] = c
DigitValue(c) == (CHOOSE i \in 1..10 : DigitChars[i] = c) - 1

RECURSIVE DecimalValue(_)
DecimalValue(s) ==
  IF s = <<>> THEN 0
  ELSE 10 * DecimalValue(SubSeq(s, 1, Len(s) - 1)) + DigitValue(s[Len(s)])

NaN == [nan |-> TRUE, v |-> 0]
Num(k) == [nan |-> FALSE, v |-> k]

\* Number(cell): blank text is 0, a decimal integer with an optional sign is
\* its value, any other text of the model's alphabet is NaN (the model's
\* cells hold no fraction, exponent or radix prefix)
Number(cell) ==
  LET t == Trim(cell)
      unsigned == IF t # <<>> /\ t[1] \in {"-", "+"} THEN Tail(t) ELSE t
  IN IF t = <<>> THEN Num(0)
     ELSE IF unsigned # <<>> /\ \A i \in 1..Len(unsigned) : IsDigit(unsigned[i])
     THEN Num(IF t[1] = "-" THEN 0 - DecimalValue(unsigned) ELSE DecimalValue(unsigned))
     ELSE NaN

RECURSIVE Sum(_)
Sum(values) == IF values = <<>> THEN 0 ELSE Head(values) + Sum(Tail(values))

RECURSIVE SumSquares(_)
SumSquares(values) ==
  IF values = <<>> THEN 0 ELSE Head(values) * Head(values) + SumSquares(Tail(values))

MinOf(values) == CHOOSE m \in {values[i] : i \in 1..Len(values)} :
                   \A i \in 1..Len(values) : m <= values[i]
MaxOf(values) == CHOOSE m \in {values[i] : i \in 1..Len(values)} :
                   \A i \in 1..Len(values) : m >= values[i]

\* [...values].sort((a, b) => a - b)
RECURSIVE Sorted(_)
Sorted(values) ==
  IF values = <<>> THEN <<>>
  ELSE LET i == CHOOSE j \in 1..Len(values) :
                  /\ values[j] = MinOf(values)
                  /\ \A k \in 1..(j - 1) : values[k] # values[j]
       IN <<values[i]>> \o Sorted(SubSeq(values, 1, i - 1) \o SubSeq(values, i + 1, Len(values)))

\* the median as the fraction <<numerator, denominator>>
Median(values) ==
  LET sorted == Sorted(values) IN
  IF Len(sorted) % 2 = 0
  THEN <<sorted[Len(sorted) \div 2] + sorted[Len(sorted) \div 2 + 1], 2>>
  ELSE <<sorted[Len(sorted) \div 2 + 1], 1>>

\* a z-score test without Math.abs
ZScoreExceeds_Signed(v, values, t) ==
  LET n == Len(values)
      S == Sum(values)
      SS == SumSquares([i \in 1..n |-> n * values[i] - S])
      d == n * v - S
  IN IF SS = 0 THEN d > 0
     ELSE IF t.num < 0 THEN d >= 0 \/ d * d * n * t.den * t.den < t.num * t.num * SS
     ELSE d > 0 /\ d * d * n * t.den * t.den > t.num * t.num * SS

\* Math.abs((v - mean) / stdDev) > threshold, for the population mean and
\* standard deviation of values and the threshold t.num / t.den, in exact
\* arithmetic: with n values of sum S, d(x) = n*x - S and SS the sum of the
\* d(x) squared, stdDev^2 = SS / n^3 and v - mean = d(v) / n.  A zero
\* stdDev makes the quotient NaN or infinite: NaN exceeds nothing.
ZScoreExceeds(v, values, t) ==
  LET n == Len(values)
      S == Sum(values)
      SS == SumSquares([i \in 1..n |-> n * values[i] - S])
      d == n * v - S
  IN IF SS = 0 THEN d # 0
     ELSE IF t.num < 0 THEN TRUE
     ELSE d * d * n * t.den * t.den > t.num * t.num * SS

-----------------------------------------------------------------------------
(* Analysis operations and the dispatcher                                  *)

\* the column of a table, cell by cell (colIndex is 0-based, as in the code)
Column(rows, colIndex) == [r \in 1..Len(rows) |-> rows[r][colIndex + 1]]

\* !cell || cell.trim() === ''
IsMissing(cell) == cell = <<>> \/ Trim(cell) = <<>>

\* row.map(cell => (cell ?? '').trim()).join('|')
RowKey(row) == Join(Map(Trim, row), <<PIPE>>)

\* a dedupe whose has-check forgets a key once it has dropped a row for it
RECURSIVE UniqueRows_Toggle(_, _)
UniqueRows_Toggle(rows, seen) ==
  IF rows = <<>> THEN <<>>
  ELSE IF RowKey(Head(rows)) \in seen
  THEN UniqueRows_Toggle(Tail(rows), seen \ {RowKey(Head(rows))})
  ELSE <<Head(rows)>> \o UniqueRows_Toggle(Tail(rows), seen \cup {RowKey(Head(rows))})

\* a dedupe that keeps the last row of each key
RECURSIVE UniqueRows_KeepLast(_, _)
UniqueRows_KeepLast(rows, seen) ==
  IF rows = <<>> THEN <<>>
  ELSE IF \E i \in 2..Len(rows) : RowKey(rows[i]) = RowKey(Head(rows))
  THEN UniqueRows_KeepLast(Tail(rows), seen)
  ELSE <<Head(rows)>> \o UniqueRows_KeepLast(Tail(rows), seen)

\* Array.from(uniqueRowMap.values()): the first row of each key, in the order
\* the keys were first seen
RECURSIVE UniqueRows(_, _)
UniqueRows(rows, seen) ==
  IF rows = <<>> THEN <<>>
  ELSE IF RowKey(Head(rows)) \in seen THEN UniqueRows(Tail(rows), seen)
  ELSE <<Head(rows)>> \o UniqueRows(Tail(rows), seen \cup {RowKey(Head(rows))})

\* the forEach of _countDuplicates over the rows left, uniqueRows so far
RECURSIVE CountDuplicatesFrom(_, _)
CountDuplicatesFrom(rows, uniqueRows) ==
  IF rows = <<>> THEN 0
  ELSE IF RowKey(Head(rows)) \in uniqueRows
  THEN 1 + CountDuplicatesFrom(Tail(rows), uniqueRows)
  ELSE CountDuplicatesFrom(Tail(rows), uniqueRows \cup {RowKey(Head(rows))})

\* a count that compares each row with the row before it only
_countDuplicates_Adjacent(rows) ==
  Cardinality({i \in 2..Len(rows) : RowKey(rows[i]) = RowKey(rows[i - 1])})

_countDuplicates(rows) == CountDuplicatesFrom(rows, {})

\* the Record the forEach leaves: one entry per header name, a later column
\* of the same name overwriting the earlier one
_countMissingValues(rows, hs) ==
  [h \in {hs[i] : i \in 1..Len(hs)} |->
     LET colIndex == (CHOOSE i \in 1..Len(hs) :
                        hs[i] = h /\ \A j \in (i + 1)..Len(hs) : hs[j] # h) - 1
     IN Len(SelectSeq(Column(rows, colIndex), IsMissing))]

_generateRecommendations(missingValues, duplicateCount, outlierSummary) ==
  LET columnsWithMissing == {h \in DOMAIN missingValues : missingValues[h] > 0}
  IN (IF columnsWithMissing # {}
      THEN <<[recommend |-> "clean_missing", columns |-> columnsWithMissing]>> ELSE <<>>)
     \o (IF duplicateCount > 0
         THEN <<[recommend |-> "remove_duplicates", count |-> duplicateCount]>> ELSE <<>>)
     \o (IF Len(outlierSummary) > 0
         THEN <<[recommend |-> "investigate_outliers", columns |-> outlierSummary]>> ELSE <<>>)

\* the string _call returns: plain prose, or JSON.stringify of an object.
\* msg names the template, info holds the values interpolated into it.
Prose(msg, info) ==
  [kind |-> "text", msg |-> msg, info |-> info,
   processed_csv_data |-> None, download_link |-> None]
Dataset(msg, info, csv) ==
  [kind |-> "json", msg |-> msg, info |-> info,
   processed_csv_data |-> Some(csv), download_link |-> None]
Download(link, info) ==
  [kind |-> "json", msg |-> "download", info |-> info,
   processed_csv_data |-> None, download_link |-> Some(link)]

\* what a call did: the value returned and the validateCSVData and parseCSV
\* invocations it made, in order (call: the number of the tool call that
\* made it, 0 for POST itself)
Done(ret, log) == [ret |-> ret, log |-> log]
Validated(text, ok) == [fn |-> "validateCSVData", arg |-> text, ok |-> ok, call |-> 0]
Parsed(text) == [fn |-> "parseCSV", arg |-> text, ok |-> TRUE, call |-> 0]

validOperations ==
  {"analyze", "filter", "summarize", "visualize", "clean_missing",
   "detect_outliers", "remove_duplicates", "generate_report", "download_data"}

\* the numeric values of a column: .filter(v => !isNaN(Number(v))).map(Number)
NumericValues(cells) ==
  Map(LAMBDA c : Number(c).v, SelectSeq(cells, LAMBDA c : ~Number(c).nan))

\* outlierSummary of generate_report: an entry per numeric column that has
\* a value beyond 3 standard deviations, the column found again by its name
OutlierSummary(hs, rows) ==
  LET numericColumns ==
        Map(LAMBDA i : hs[i],
            SelectSeq([i \in 1..Len(hs) |-> i], LAMBDA i :
              \E r \in 1..Len(rows) : ~Number(rows[r][i]).nan))
      entry(col) ==
        LET colIndex == IndexOf(hs, col)
            values == NumericValues(Column(rows, colIndex))
            outliers == SelectSeq(values, LAMBDA v :
                          ZScoreExceeds(v, values, [num |-> 3, den |-> 1]))
        IN IF Len(values) = 0 \/ Len(outliers) = 0 THEN <<>>
           ELSE <<[column |-> col, outliers |-> Len(outliers)]>>
  IN Concat(Map(entry, numericColumns))

\* the filter branch (746-768)
Filter(in, hs, rows) ==
  LET column == in.column
      columnIndex == IndexOf(hs, column.v)
  IN IF columnIndex = -1 THEN Prose("column_not_found_plain", [column |-> column.v])
     ELSE LET filteredData ==
                SelectSeq(rows, LAMBDA row :
                  /\ row[columnIndex + 1] # <<>>
                  /\ Includes(row[columnIndex + 1], in.condition.v))
          IN Dataset("filtered",
                     [column |-> column.v, condition |-> in.condition.v,
                      original |-> Len(rows), kept |-> Len(filteredData),
                      removed |-> Len(rows) - Len(filteredData)],
                     formatCSV(hs, filteredData))

\* the summarize branch (769-800)
Summarize(in, hs, rows) ==
  LET column == in.column
      columnIndex == IndexOf(hs, column.v)
      cells == Column(rows, columnIndex)
  IN IF columnIndex = -1 THEN Prose("column_not_found_plain", [column |-> column.v])
     ELSE LET values == SelectSeq(cells, LAMBDA c : c # <<>>)
              numericValues == NumericValues(values)
          IN IF Len(numericValues) > 0
             THEN Prose("summary_numeric",
                        [column |-> column.v, count |-> Len(values),
                         numeric |-> Len(numericValues),
                         mean |-> <<Sum(numericValues), Len(numericValues)>>,
                         median |-> Median(numericValues),
                         min |-> MinOf(numericValues), max |-> MaxOf(numericValues)])
             ELSE LET uniqueValues == {values[i] : i \in 1..Len(values)}
                  IN Prose("summary_categorical",
                           [column |-> column.v, count |-> Len(values),
                            unique |-> Cardinality(uniqueValues),
                            samples |-> IF Cardinality(uniqueValues) < 5
                                        THEN Cardinality(uniqueValues) ELSE 5])

\* a clean_missing whose drop looks at the cell one column to the right
CleanMissing_NextColumn(in, hs, rows) ==
  LET column == in.column
      columnIndex == IndexOf(hs, column.v)
      cells == Column(rows, columnIndex)
  IN IF columnIndex = -1 THEN Prose("column_not_found_plain", [column |-> column.v])
     ELSE LET missingCount == Len(SelectSeq(cells, IsMissing))
          IN IF in.method.v = <<"d", "r", "o", "p">>
             THEN LET cleanedData ==
                        SelectSeq(rows, LAMBDA row :
                          columnIndex + 2 <= Len(row) /\ ~IsMissing(row[columnIndex + 2]))
                  IN Dataset("cleaned_drop",
                             [column |-> column.v, original |-> Len(rows),
                              missing |-> missingCount, remaining |-> Len(cleanedData),
                              removed |-> Len(rows) - Len(cleanedData)],
                             formatCSV(hs, cleanedData))
             ELSE Dataset("cleaned_impute",
                          [column |-> column.v, original |-> Len(rows),
                           missing |-> missingCount, imputed |-> missingCount,
                           method |-> in.method.v],
                          in.csv_data)

\* a clean_missing whose imputation branch re-serializes the parsed table
CleanMissing_Reserialize(in, hs, rows) ==
  LET column == in.column
      columnIndex == IndexOf(hs, column.v)
      cells == Column(rows, columnIndex)
  IN IF columnIndex = -1 THEN Prose("column_not_found_plain", [column |-> column.v])
     ELSE LET missingCount == Len(SelectSeq(cells, IsMissing))
          IN IF in.method.v = <<"d", "r", "o", "p">>
             THEN LET cleanedData ==
                        SelectSeq(rows, LAMBDA row : ~IsMissing(row[columnIndex + 1]))
                  IN Dataset("cleaned_drop",
                             [column |-> column.v, original |-> Len(rows),
                              missing |-> missingCount, remaining |-> Len(cleanedData),
                              removed |-> Len(rows) - Len(cleanedData)],
                             formatCSV(hs, cleanedData))
             ELSE Dataset("cleaned_impute",
                          [column |-> column.v, original |-> Len(rows),
                           missing |-> missingCount, imputed |-> missingCount,
                           method |-> in.method.v],
                          formatCSV(hs, rows))

\* the clean_missing branch (801-834)
CleanMissing(in, hs, rows) ==
  LET column == in.column
      columnIndex == IndexOf(hs, column.v)
      cells == Column(rows, columnIndex)
  IN IF columnIndex = -1 THEN Prose("column_not_found_plain", [column |-> column.v])
     ELSE LET missingCount == Len(SelectSeq(cells, IsMissing))
          IN IF in.method.v = <<"d", "r", "o", "p">>
             THEN LET cleanedData ==
                        SelectSeq(rows, LAMBDA row : ~IsMissing(row[columnIndex + 1]))
                  IN Dataset("cleaned_drop",
                             [column |-> column.v, original |-> Len(rows),
                              missing |-> missingCount, remaining |-> Len(cleanedData),
                              removed |-> Len(rows) - Len(cleanedData)],
                             formatCSV(hs, cleanedData))
             ELSE Dataset("cleaned_impute",
                          [column |-> column.v, original |-> Len(rows),
                           missing |-> missingCount, imputed |-> missingCount,
                           method |-> in.method.v],
                          in.csv_data)

\* the detect_outliers branch (835-863)
DetectOutliers(in, hs, rows) ==
  LET column == in.column
      columnIndex == IndexOf(hs, column.v)
      cells == Column(rows, columnIndex)
  IN IF columnIndex = -1 THEN Prose("column_not_found_plain", [column |-> column.v])
     ELSE LET numericValues == NumericValues(cells)
          IN IF Len(numericValues) = 0
             THEN Prose("not_numeric", [column |-> column.v])
             ELSE LET outliers ==
                        SelectSeq(numericValues, LAMBDA v :
                          ZScoreExceeds(v, numericValues, in.threshold.v))
                  IN Prose("outliers",
                           [column |-> column.v, threshold |-> in.threshold.v,
                            total |-> Len(numericValues),
                            mean |-> <<Sum(numericValues), Len(numericValues)>>,
                            detected |-> Len(outliers),
                            values |-> SubSeq(outliers, 1,
                                         IF Len(outliers) < 5 THEN Len(outliers) ELSE 5)])

\* a remove_duplicates that returns the JSON object whatever it removed
RemoveDuplicates_AlwaysJson(hs, rows) ==
  LET cleanedData == UniqueRows(rows, {})
      removedCount == Len(rows) - Len(cleanedData)
  IN Dataset("duplicates_removed",
             [removed |-> removedCount, kept |-> Len(cleanedData)],
             formatCSV(hs, cleanedData))

\* the remove_duplicates branch (864-893)
RemoveDuplicates(hs, rows) ==
  LET cleanedData == UniqueRows(rows, {})
      originalRowCount == Len(rows)
      removedCount == originalRowCount - Len(cleanedData)
      finalCsv == formatCSV(hs, cleanedData)
  IN IF removedCount > 0
     THEN Dataset("duplicates_removed",
                  [removed |-> removedCount, kept |-> Len(cleanedData)],
                  finalCsv)
     ELSE Prose("duplicate_removal",
                [original |-> originalRowCount, unique |-> Len(cleanedData),
                 removed |-> removedCount])

\* the branches of _call after the column check, on the parsed table
Operate(in, hs, rows) ==
  LET operation == in.operation
      column == in.column
  IN
  IF operation = "analyze"
  THEN Prose("analysis",
             [rows |-> Len(rows), columns |-> Len(hs), headers |-> hs,
              missing |-> _countMissingValues(rows, hs),
              duplicates |-> _countDuplicates(rows)])
  ELSE IF operation = "filter" /\ Truthy(column) /\ Truthy(in.condition)
  THEN Filter(in, hs, rows)
  ELSE IF operation = "summarize" /\ Truthy(column)
  THEN Summarize(in, hs, rows)
  ELSE IF operation = "clean_missing" /\ Truthy(column) /\ Truthy(in.method)
  THEN CleanMissing(in, hs, rows)
  ELSE IF operation = "detect_outliers" /\ Truthy(column)
          /\ in.threshold.def /\ in.threshold.v.num # 0
  THEN DetectOutliers(in, hs, rows)
  ELSE IF operation = "remove_duplicates"
  THEN RemoveDuplicates(hs, rows)
  ELSE IF operation = "generate_report"
  THEN LET missingValues == _countMissingValues(rows, hs)
           duplicateCount == _countDuplicates(rows)
           outlierSummary == OutlierSummary(hs, rows)
       IN Prose("report",
                [rows |-> Len(rows), columns |-> Len(hs), headers |-> hs,
                 missing |-> missingValues, duplicates |-> duplicateCount,
                 outliers |-> outlierSummary,
                 recommendations |->
                   _generateRecommendations(missingValues, duplicateCount, outlierSummary)])
  ELSE IF operation = "visualize"
  THEN Prose("visualization", <<>>)
  ELSE Prose("invalid_or_missing_parameters", <<>>)

\* _call without the column check of lines 728-730
_call_NoColumnCheck(in) ==
  IF in.operation \notin validOperations
  THEN Done(Prose("invalid_operation", [operation |-> in.operation]), <<>>)
  ELSE IF in.operation = "download_data"
  THEN LET dataToDownload ==
             IF Truthy(in.processed_data) THEN in.processed_data.v ELSE in.csv_data
           validation == validateCSVData(RunsOf(dataToDownload))
           log == <<Validated(dataToDownload, validation.valid)>>
           downloadFormat == IF in.format.def THEN in.format.v ELSE "csv"
       IN IF ~validation.valid
          THEN Done(Prose("validation_error", [error |-> validation.error]), log)
          ELSE IF downloadFormat \notin {"csv", "excel"}
          THEN Done(Prose("invalid_download_format", <<>>), log)
          ELSE Done(Download(generateDownloadableFile(dataToDownload, downloadFormat),
                             [file_format |-> downloadFormat, file_name |-> None]),
                    log)
  ELSE LET validation == validateCSVData(RunsOf(in.csv_data))
           table == parseCSV(in.csv_data)
       IN IF ~validation.valid
          THEN Done(Prose("validation_error", [error |-> validation.error]),
                    <<Validated(in.csv_data, FALSE)>>)
          ELSE Done(Operate(in, table.headers, table.data),
                    <<Validated(in.csv_data, TRUE), Parsed(in.csv_data)>>)

\* an exception on its way to the caller
Thrown(e) ==
  [kind |-> "exception", msg |-> e, info |-> <<>>,
   processed_csv_data |-> None, download_link |-> None]

\* the try block of _call (685-937)
TryBody(in) ==
  IF in.operation \notin validOperations
  THEN Done(Prose("invalid_operation", [operation |-> in.operation]), <<>>)
  ELSE IF in.operation = "download_data"
  THEN LET dataToDownload ==
             IF Truthy(in.processed_data) THEN in.processed_data.v ELSE in.csv_data
           validation == validateCSVData(RunsOf(dataToDownload))
           log == <<Validated(dataToDownload, validation.valid)>>
           downloadFormat == IF in.format.def THEN in.format.v ELSE "csv"
       IN IF ~validation.valid
          THEN Done(Prose("validation_error", [error |-> validation.error]), log)
          ELSE IF downloadFormat \notin {"csv", "excel"}
          THEN Done(Prose("invalid_download_format", <<>>), log)
          ELSE Done(Download(generateDownloadableFile(dataToDownload, downloadFormat),
                             [file_format |-> downloadFormat, file_name |-> None]),
                    log)
  ELSE LET validation == validateCSVData(RunsOf(in.csv_data))
           table == parseCSV(in.csv_data)
       IN IF ~validation.valid
          THEN Done(Prose("validation_error", [error |-> validation.error]),
                    <<Validated(in.csv_data, FALSE)>>)
          ELSE IF Truthy(in.column) /\ ~Contains(table.headers, in.column.v)
          THEN Done(Prose("column_not_found",
                          [column |-> in.column.v, headers |-> table.headers]),
                    <<Validated(in.csv_data, TRUE), Parsed(in.csv_data)>>)
          ELSE Done(IF fault THEN Thrown("runtime error")
                    ELSE Operate(in, table.headers, table.data),
                    <<Validated(in.csv_data, TRUE), Parsed(in.csv_data)>>)

\* the catch clause: an error becomes the 'Error processing CSV data' string
\* (938-940)
Catch(out) ==
  IF out.ret.kind = "exception"
  THEN Done(Prose("error_processing", [message |-> out.ret.msg]), out.log)
  ELSE out

\* _call without its catch clause
_call_NoCatch(in) == TryBody(in)

\* CSVDataProcessor._call: the try block and its catch clause
_call(in) == Catch(TryBody(in))

-----------------------------------------------------------------------------
(* Request handling: sanitizeInputs, and the tool POST hands to the agent  *)

\* the string literals of the route
SCRIPT_TAG == <<"<", "s", "c", "r", "i", "p", "t">>
LT_SCRIPT == <<"&", "l", "t", ";", "s", "c", "r", "i", "p", "t">>
JAVASCRIPT == <<"j", "a", "v", "a", "s", "c", "r", "i", "p", "t", ":">>
DISABLED_JAVASCRIPT == <<"d", "i", "s", "a", "b", "l", "e", "d", "-", "j", "a", "v", "a", "s", "c", "r", "i", "p", "t", ":">>
DATA_ON == <<"d", "a", "t", "a", "-", "o", "n", "=">>
SAMPLE_DATA_CSV == <<"s", "a", "m", "p", "l", "e", "_", "d", "a", "t", "a", ".", "c", "s", "v">>
DOT_CSV == <<".", "c", "s", "v">>
CLEANED_DATA == <<"c", "l", "e", "a", "n", "e", "d", "_", "d", "a", "t", "a", ".">>
CSV == <<"c", "s", "v">>
EXCEL == <<"e", "x", "c", "e", "l">>

IsWordChar(c) ==
  \/ c \in DOMAIN LowerOf
  \/ \E k \in DOMAIN LowerOf : LowerOf[k] = c
  \/ IsDigit(c)
  \/ c = "_"

\* value.replace(/pattern/gi, replacement) for a literal pattern
RECURSIVE ReplaceAll(_, _, _)
ReplaceAll(s, pattern, replacement) ==
  IF s = <<>> THEN <<>>
  ELSE IF Len(s) >= Len(pattern) /\ LowerText(SubSeq(s, 1, Len(pattern))) = pattern
  THEN replacement \o ReplaceAll(SubSeq(s, Len(pattern) + 1, Len(s)), pattern, replacement)
  ELSE <<Head(s)>> \o ReplaceAll(Tail(s), pattern, replacement)

\* the number of leading word characters of s
RECURSIVE WordPrefix(_)
WordPrefix(s) ==
  IF s = <<>> \/ ~IsWordChar(Head(s)) THEN 0 ELSE 1 + WordPrefix(Tail(s))

\* the length of the match of /on\w+=/i at the start of s, 0 when none: the
\* greedy \w+ must be followed by "=", which is no word character
HandlerMatch(s) ==
  IF Len(s) >= 4 /\ Lower(s[1]) = "o" /\ Lower(s[2]) = "n"
  THEN LET w == WordPrefix(SubSeq(s, 3, Len(s)))
       IN IF w >= 1 /\ 3 + w <= Len(s) /\ s[3 + w] = "=" THEN 3 + w ELSE 0
  ELSE 0

\* value.replace(/on\w+=/gi, 'data-on=')
RECURSIVE ReplaceHandlers(_)
ReplaceHandlers(s) ==
  IF s = <<>> THEN <<>>
  ELSE IF HandlerMatch(s) > 0
  THEN DATA_ON \o ReplaceHandlers(SubSeq(s, HandlerMatch(s) + 1, Len(s)))
  ELSE <<Head(s)>> \o ReplaceHandlers(Tail(s))

\* the three replacements sanitizeInputs chains on a string value
SanitizeString(value) ==
  ReplaceHandlers(
    ReplaceAll(
      ReplaceAll(value, SCRIPT_TAG, LT_SCRIPT),
      JAVASCRIPT, DISABLED_JAVASCRIPT))

\* sanitizeInputs on the request body, an object of optional strings
sanitizeInputs(obj) ==
  [key \in DOMAIN obj |->
     IF obj[key].def THEN Some(SanitizeString(obj[key].v)) ELSE obj[key]]

\* `cleaned_data.${format}`
CleanedDataName(format) ==
  CLEANED_DATA \o (IF format = "excel" THEN EXCEL ELSE CSV)

\* what a call returns, logged after the events of its caller
After(log, out) == Done(out.ret, log \o out.log)

\* CustomCSVDataProcessor._call, its closure holding the request's csvData
\* and csvFileName
CustomCall(in, upload, fileName) ==
  IF \/ in.csv_data = <<>>
     \/ Trim(in.csv_data) = SAMPLE_DATA_CSV
     \/ EndsWith(in.csv_data, DOT_CSV) /\ ~Contains(in.csv_data, NL)
  THEN IF Truthy(upload)
       THEN IF in.operation = "download_data"
            THEN LET format == IF in.format.def THEN in.format.v ELSE "csv"
                     file == IF Truthy(fileName) THEN fileName.v ELSE CleanedDataName(format)
                 IN Done(Download(generateDownloadableFile(upload.v, format),
                                  [file_format |-> format, file_name |-> Some(file)]),
                         <<>>)
            ELSE IF in.operation = "remove_duplicates"
            THEN LET rows == parseCSV(upload.v).data
                     duplicates == {i \in 1..Len(rows) :
                                      \E j \in (i + 1)..Len(rows) :
                                        RowKey(rows[i]) = RowKey(rows[j])}
                 IN IF duplicates # {}
                    THEN After(<<Parsed(upload.v)>>, _call([in EXCEPT !.csv_data = upload.v]))
                    ELSE Done(Prose("no_duplicates_found", <<>>), <<Parsed(upload.v)>>)
            ELSE _call([in EXCEPT !.csv_data = upload.v])
       ELSE Done(Prose("no_csv_data_available", <<>>), <<>>)
  ELSE _call(in)

-----------------------------------------------------------------------------
(* Idle values of the variables a specification does not use              *)

NoTable == [headers |-> <<>>, data |-> <<>>]
NoBody == [csvData |-> None, csvFileName |-> None, apiKey |-> None]
NoInput == [operation |-> "none"]
NoResult == [kind |-> "none"]

RoundTripIdle ==
  /\ headers = <<>> /\ data = <<>> /\ csvText = <<>> /\ parsed = NoTable
ValidatorIdle == raw = <<>> /\ verdict = Valid
NoResponse == [status |-> 0, error |-> ""]
PostIdle == body = NoBody /\ csvData = None /\ response = NoResponse
NoPrev == [input |-> NoInput, result |-> NoResult]
ToolIdle ==
  /\ input = NoInput /\ result = NoResult /\ prev = NoPrev /\ calls = 0
  /\ trace = <<>>
EngineIdle == fault = FALSE
NoRequests == <<>>
ConcurrentIdle == reqs = <<>> /\ requests = NoRequests
NoScan == [rowString |-> <<>>, i |-> 0, result |-> <<>>, currentField |-> <<>>,
           inQuotes |-> FALSE, done |-> FALSE]
ScannerIdle == scan = NoScan
NoCall == [fn |-> "none"]
NoLimits == [maxRequests |-> 0, windowMs |-> 0]
LimiterIdle ==
  now = 0 /\ ticks = 0 /\ limits = NoLimits /\ last = NoCall /\ logged = <<>>
NoUpload == [fileName |-> <<>>, accepted |-> FALSE, csvData |-> <<>>]
UploadIdle == uploaded = NoUpload

-----------------------------------------------------------------------------
(* Round trip: a table is serialized by formatCSV, the text parsed back    *)

MaxCells == 4

\* cells free of newlines: empty, plain, a comma, a quote, outer blanks
Cells ==
  { <<>>, <<"a">>, <<COMMA>>, <<QUOTE>>, <<SP, "a">>, <<"a", QUOTE, COMMA, "b">> }

InitRoundTrip ==
  /\ pc = "format"
  /\ \E w \in 0..MaxCells, r \in 0..MaxCells :
       /\ w * (1 + r) <= MaxCells
       /\ headers \in [1..w -> Cells]
       /\ data \in [1..r -> [1..w -> Cells]]
  /\ csvText = <<>> /\ parsed = NoTable
  /\ ValidatorIdle /\ PostIdle /\ ToolIdle /\ EngineIdle /\ ConcurrentIdle
  /\ ScannerIdle /\ LimiterIdle /\ UploadIdle

Serialize ==
  /\ pc = "format"
  /\ csvText' = formatCSV(headers, data)
  /\ pc' = "parse"
  /\ UNCHANGED <<scan, now, ticks, limits, last, logged, uploaded, fault, reqs, requests, headers, data, parsed, raw, verdict, body, csvData, response,
                 input, result, prev, calls, trace>>

Reparse ==
  /\ pc = "parse"
  /\ parsed' = parseCSV(csvText)
  /\ pc' = "parsed"
  /\ UNCHANGED <<scan, now, ticks, limits, last, logged, uploaded, fault, reqs, requests, headers, data, csvText, raw, verdict, body, csvData, response,
                 input, result, prev, calls, trace>>

NextRoundTrip == Serialize \/ Reparse

SpecRoundTrip == InitRoundTrip /\ [][NextRoundTrip]_vars

\* C1: round trip.  For every table whose rows all have headers.length
\* cells and whose cells hold no newline (cells with commas, quotes and outer
\* blanks, empty cells and the table without headers and rows included),
\* parseCSV(formatCSV(headers, data)) is that table again.
C1_RoundTrip ==
  pc = "parsed" => parsed.headers = headers /\ parsed.data = data

-----------------------------------------------------------------------------
(* Validator run: validateCSVData applied to a payload                     *)

MaxPieces == 3

Rep(c, n) == <<[ch |-> c, n |-> n]>>

\* what a payload is put together from: single characters, runs that reach
\* the column, line and size ceilings, and words of unsafe content
Pieces ==
  { Rep("a", 1), Rep(COMMA, 1), Rep(NL, 1), Rep(SP, 1),
    Rep(COMMA, MaxColumns - 1), Rep(COMMA, MaxColumns),
    Rep(NL, MaxLines - 1), Rep(NL, MaxLines),
    Rep("a", MaxSizeMB * (1024 * 1024)),
    RunsOf(<<"<", "S", "c", "R", "i", "p", "t">>),
    RunsOf(<<"J", "a", "v", "a", "S", "c", "r", "i", "p", "t", ":">>),
    RunsOf(<<"e", "v", "a", "l", "(">>),
    RunsOf(<<"f", "u", "n", "c", "t", "i", "o", "n", "(">>),
    RunsOf(<<"s", "e", "t", "T", "i", "m", "e", "o", "u", "t">>),
    RunsOf(<<"d", "o", "c", "u", "m", "e", "n", "t", ".">>),
    RunsOf(<<"o", "n", "e", "r", "r", "o", "r", "=">>),
    RunsOf(<<"<", "%", "a", "%", ">">>) }

InitValidate ==
  /\ pc = "validate"
  /\ \E k \in 0..MaxPieces : \E f \in [1..k -> Pieces] : raw = Concat(f)
  /\ verdict = Valid
  /\ RoundTripIdle /\ PostIdle /\ ToolIdle /\ EngineIdle /\ ConcurrentIdle
  /\ ScannerIdle /\ LimiterIdle /\ UploadIdle

Validate ==
  /\ pc = "validate"
  /\ verdict' = validateCSVData(raw)
  /\ pc' = "validated"
  /\ UNCHANGED <<scan, now, ticks, limits, last, logged, uploaded, fault, reqs, requests, headers, data, csvText, parsed, raw, body, csvData, response,
                 input, result, prev, calls, trace>>

NextValidate == Validate

SpecValidate == InitValidate /\ [][NextValidate]_vars

\* the checks as the claims word them, on the payload of the run
RawIsBlank == \A i \in 1..Len(raw) : IsSpace(raw[i].ch)
RawIsOversize == RunsLength(raw) > 15 * 1024 * 1024
RawLineCount == IF RawIsBlank THEN 1 ELSE CountChar(TrimRuns(raw), NL) + 1
RawColumnCount ==
  IF RawIsBlank THEN 1 ELSE CountChar(FirstLine(TrimRuns(raw)), COMMA) + 1
RawHasNoLines == RawLineCount = 0
RawHasBadColumns == RawColumnCount = 0 \/ RawColumnCount > 1000
RawHasTooManyRows == RawLineCount > 200000
RawText == LowerText(Expand(raw, 16))
RawMatchesDenyList ==
  \E i \in 1..Len(dangerousPatterns) : Includes(RawText, dangerousPatterns[i])

\* C7: validateCSVData returns the error of the first failing check in the
\* order empty, oversize, no lines, zero or too many columns, too many rows,
\* unsafe content, and {valid: true} exactly when no check fails.
C7_FirstFailingCheck ==
  pc = "validated" =>
    verdict =
      IF RawIsBlank THEN Invalid("Empty CSV data")
      ELSE IF RawIsOversize THEN Invalid("CSV data too large")
      ELSE IF RawHasNoLines THEN Invalid("CSV must have at least a header row")
      ELSE IF RawColumnCount = 0 THEN Invalid("No columns detected in CSV")
      ELSE IF RawHasBadColumns THEN Invalid("Too many columns (max: 1000)")
      ELSE IF RawHasTooManyRows THEN Invalid("Too many rows (max: 200,000)")
      ELSE IF RawMatchesDenyList THEN Invalid("CSV contains potentially unsafe content")
      ELSE Valid

\* a payload over the column ceiling, over the row ceiling and with unsafe
\* content has been answered with the column error
C7_Witness ==
  /\ pc = "validated"
  /\ RawHasBadColumns /\ RawHasTooManyRows /\ RawMatchesDenyList
  /\ verdict = Invalid("Too many columns (max: 1000)")

\* the patterns the deny-list is said to hold, on the lower-cased text
HasScriptTag(s) == Includes(s, <<"<", "s", "c", "r", "i", "p", "t">>)
HasJavascriptUri(s) ==
  Includes(s, <<"j", "a", "v", "a", "s", "c", "r", "i", "p", "t", ":">>)
HasEvalCall(s) == Includes(s, <<"e", "v", "a", "l", "(">>)
HasEventHandler(s) == Includes(s, <<"o", "n", "e", "r", "r", "o", "r", "=">>)
HasTemplateDelimiters(s) ==
  \E i \in 1..Len(s), j \in 1..Len(s) :
    /\ i + 1 < j /\ j + 1 <= Len(s)
    /\ s[i] = "<" /\ s[i + 1] = "%" /\ s[j] = "%" /\ s[j + 1] = ">"

\* C8: validateCSVData rejects with the unsafe-content error every payload
\* whose text holds, in any letter case and at any position, a script tag, a
\* javascript: URI, eval(, an inline event-handler attribute (onerror=) or
\* template-engine delimiters (an earlier check that fails reports its own
\* error).
C8_RejectsListedPatterns ==
  (/\ pc = "validated"
   /\ ~RawIsBlank /\ ~RawIsOversize /\ ~RawHasNoLines
   /\ ~RawHasBadColumns /\ ~RawHasTooManyRows
   /\ \/ HasScriptTag(RawText) \/ HasJavascriptUri(RawText) \/ HasEvalCall(RawText)
      \/ HasEventHandler(RawText) \/ HasTemplateDelimiters(RawText))
  => verdict = Invalid("CSV contains potentially unsafe content")

-----------------------------------------------------------------------------
(* Tool run: CSVDataProcessor._call invoked on a payload, then again on    *)
(* what the call returned, as a caller chaining operations does            *)

MaxDataLines == 3
MaxCalls == 2

Scenario1 == <<"a", COMMA, "b", NL, "1", COMMA, "2", NL, "1", COMMA, "2", NL, "3", COMMA, "4">>

HeaderLines == { <<"a", COMMA, "b">> }

\* data rows: plain, a second plain one, one with outer blanks, one with an
\* empty first cell, one a field short
DataLines == { <<"1", COMMA, "2">>, <<"3", COMMA, "4">>, <<SP, "1", COMMA, "2", SP>>, <<COMMA, "2">>, <<"1">> }

\* a header line and up to MaxDataLines data lines, and payloads the
\* validator refuses: empty, blank, unsafe
ToolPayloads ==
  { Join(<<h>> \o f, <<NL>>) :
      h \in HeaderLines,
      f \in UNION { [1..k -> DataLines] : k \in 0..MaxDataLines } }
  \cup { <<>>, <<SP>>, <<"a", NL, "e", "v", "a", "l", "(">> }

ColumnArgs == { None, Some(<<"a">>), Some(<<"z">>), Some(<<>>) }

Half == [num |-> 1, den |-> 2]
DROP == <<"d", "r", "o", "p">>
MEAN == <<"m", "e", "a", "n">>

Input(csv, op, col, cond, meth, thr, fmt, pd) ==
  [csv_data |-> csv, operation |-> op, column |-> col, condition |-> cond,
   method |-> meth, threshold |-> thr, format |-> fmt, processed_data |-> pd]

\* the parameter combinations of an operation (those it does not read are
\* left undefined)
ParamsOf(op) ==
  IF op = "filter"
  THEN { <<c, None, None, None, None>> : c \in {None, Some(<<"1">>)} }
  ELSE IF op = "clean_missing"
  THEN { <<None, m, None, None, None>> : m \in {None, Some(DROP), Some(MEAN)} }
  ELSE IF op = "detect_outliers"
  THEN { <<None, None, t, None, None>> :
           t \in {None, Some([num |-> 0, den |-> 1]), Some(Half)} }
  ELSE IF op = "download_data"
  THEN { <<None, None, None, f, pd>> :
           f \in {None, Some("excel")}, pd \in {None, Some(<<"a", NL, "1">>)} }
  ELSE { <<None, None, None, None, None>> }

InitTool ==
  /\ pc = "tool"
  /\ RoundTripIdle /\ ValidatorIdle /\ PostIdle /\ ToolIdle /\ EngineIdle /\ ConcurrentIdle
  /\ ScannerIdle /\ LimiterIdle /\ UploadIdle

\* one invocation of the tool: the input, what it returned, what it called
Apply(in, out) ==
  /\ input' = in
  /\ result' = out.ret
  /\ prev' = [input |-> input, result |-> result]
  /\ calls' = calls + 1
  /\ trace' = trace \o [k \in 1..Len(out.log) |-> [out.log[k] EXCEPT !.call = calls + 1]]

\* a caller invokes the tool
Invoke ==
  /\ pc = "tool" /\ calls = 0
  /\ \E csv \in ToolPayloads, op \in validOperations \cup {"export"},
        col \in ColumnArgs :
       \E p \in ParamsOf(op) :
         LET in == Input(csv, op, col, p[1], p[2], p[3], p[4], p[5])
         IN Apply(in, _call(in))
  /\ UNCHANGED <<scan, now, ticks, limits, last, logged, uploaded, fault, reqs, requests, pc, headers, data, csvText, parsed, raw, verdict, body, csvData, response>>

\* the caller runs the same operation on the processed_csv_data returned
Rerun ==
  /\ pc = "tool" /\ calls >= 1 /\ calls < MaxCalls
  /\ result.processed_csv_data.def
  /\ LET in == [input EXCEPT !.csv_data = result.processed_csv_data.v]
     IN Apply(in, _call(in))
  /\ UNCHANGED <<scan, now, ticks, limits, last, logged, uploaded, fault, reqs, requests, pc, headers, data, csvText, parsed, raw, verdict, body, csvData, response>>

\* the caller asks for the download of the processed_csv_data returned
DownloadProcessed ==
  /\ pc = "tool" /\ calls >= 1 /\ calls < MaxCalls
  /\ result.processed_csv_data.def
  /\ LET in == [input EXCEPT !.operation = "download_data",
                             !.processed_data = result.processed_csv_data]
     IN Apply(in, _call(in))
  /\ UNCHANGED <<scan, now, ticks, limits, last, logged, uploaded, fault, reqs, requests, pc, headers, data, csvText, parsed, raw, verdict, body, csvData, response>>

\* after remove_duplicates the caller has the same payload analyzed
Recount ==
  /\ pc = "tool" /\ calls >= 1 /\ calls < MaxCalls
  /\ input.operation = "remove_duplicates"
  /\ \E op \in {"analyze", "generate_report"} :
       LET in == [input EXCEPT !.operation = op] IN Apply(in, _call(in))
  /\ UNCHANGED <<scan, now, ticks, limits, last, logged, uploaded, fault, reqs, requests, pc, headers, data, csvText, parsed, raw, verdict, body, csvData, response>>

NextTool == Invoke \/ Rerun \/ DownloadProcessed \/ Recount

SpecTool == InitTool /\ [][NextTool]_vars

-----------------------------------------------------------------------------
(* Properties of the tool run                                              *)

\* the key of a row as the claims word it: cells trimmed, joined by '|'
KeyOf(row) == Join([i \in 1..Len(row) |-> Trim(row[i])], <<PIPE>>)

\* the first row of each distinct key, in the original relative order
FirstOccurrences(rows) ==
  LET first == {i \in 1..Len(rows) : \A j \in 1..(i - 1) : KeyOf(rows[j]) # KeyOf(rows[i])}
      F[i \in 0..Len(rows)] ==
        IF i = 0 THEN <<>>
        ELSE IF i \in first THEN Append(F[i - 1], rows[i]) ELSE F[i - 1]
  IN F[Len(rows)]

\* the call just made was remove_duplicates and it ran the dedupe
Deduped(in, out) ==
  /\ in.operation = "remove_duplicates"
  /\ out.kind # "none"
  /\ out.msg \in {"duplicates_removed", "duplicate_removal"}

KeptBy(out) == IF out.msg = "duplicates_removed" THEN out.info.kept ELSE out.info.unique

\* C2: idempotence of dedupe. remove_duplicates applied to the
\* processed_csv_data that remove_duplicates returned removes no further
\* row: it reports the rows it was given as all unique, and the table it was
\* given has the headers of the first table and the first call's kept rows.
C2_DedupeIdempotent ==
  (/\ calls >= 2
   /\ Deduped(prev.input, prev.result) /\ prev.result.processed_csv_data.def
   /\ input.operation = "remove_duplicates"
   /\ input.csv_data = prev.result.processed_csv_data.v)
  => LET first == parseCSV(prev.input.csv_data)
         second == parseCSV(input.csv_data)
     IN /\ result.msg = "duplicate_removal"
        /\ result.info.removed = 0
        /\ result.info.original = prev.result.info.kept
        /\ result.info.unique = prev.result.info.kept
        /\ second.headers = first.headers
        /\ second.data = FirstOccurrences(first.data)
        /\ FirstOccurrences(second.data) = second.data

\* the dedupe of a table with three rows of one key has been run again on
\* its own output
C2_Witness ==
  /\ calls = 2
  /\ Deduped(prev.input, prev.result) /\ prev.result.processed_csv_data.def
  /\ prev.result.info.removed = 2
  /\ input.operation = "remove_duplicates"
  /\ input.csv_data = prev.result.processed_csv_data.v
  /\ result.msg = "duplicate_removal"

\* C3: duplicate count invariant. The original row count is the number of
\* unique rows remove_duplicates keeps plus the number it reports removed,
\* and analyze and generate_report report that removed number as the
\* duplicate count of the same table.
C3_DuplicateCount ==
  /\ (calls >= 1 /\ Deduped(input, result))
     => LET rows == parseCSV(input.csv_data).data
        IN /\ Len(rows) = KeptBy(result) + result.info.removed
           /\ KeptBy(result) = Cardinality({KeyOf(rows[i]) : i \in 1..Len(rows)})
           /\ result.processed_csv_data.def
                => Len(parseCSV(result.processed_csv_data.v).data) = KeptBy(result)
  /\ (/\ calls >= 2
      /\ Deduped(prev.input, prev.result)
      /\ input.csv_data = prev.input.csv_data
      /\ result.msg \in {"analysis", "report"})
     => result.info.duplicates = prev.result.info.removed

\* a table whose duplicate does not follow its first occurrence directly has
\* been deduped and then reported on
C3_Witness ==
  /\ calls = 2
  /\ Deduped(prev.input, prev.result)
  /\ prev.input.csv_data =
       <<"a", COMMA, "b", NL, "1", COMMA, "2", NL, "3", COMMA, "4", NL, "1", COMMA, "2">>
  /\ input.csv_data = prev.input.csv_data
  /\ result.msg = "report"
  /\ result.info.duplicates = 1

\* C4: remove_duplicates keeps, in the original relative order, exactly the
\* first row of each distinct key and removes every later row of that key;
\* for a,b / 1,2 / 1,2 / 3,4 it reports 1 removed and 2 kept and the
\* re-serialized payload holds exactly the rows 1,2 and 3,4.
C4_KeepsFirstOfEachKey ==
  /\ (calls >= 1 /\ Deduped(input, result))
     => LET table == parseCSV(input.csv_data)
            expected == FirstOccurrences(table.data)
        IN /\ KeptBy(result) = Len(expected)
           /\ result.info.removed = Len(table.data) - Len(expected)
           /\ IF result.msg = "duplicates_removed"
              THEN /\ result.processed_csv_data.def
                   /\ parseCSV(result.processed_csv_data.v) =
                        [headers |-> table.headers, data |-> expected]
              ELSE expected = table.data /\ ~result.processed_csv_data.def
  /\ (/\ calls >= 1
      /\ input.operation = "remove_duplicates"
      /\ input.csv_data = Scenario1
      /\ input.column = None)
     => /\ result.msg = "duplicates_removed"
        /\ result.info = [removed |-> 1, kept |-> 2]
        /\ parseCSV(result.processed_csv_data.v).data =
             << <<<<"1">>, <<"2">>>>, <<<<"3">>, <<"4">>>> >>

\* remove_duplicates has answered for a,b / 1,2 / 1,2 / 3,4
C4_Witness ==
  /\ calls = 1
  /\ input.operation = "remove_duplicates"
  /\ input.csv_data = Scenario1
  /\ input.column = None
  /\ result.msg = "duplicates_removed"

\* the column-not-found answer: an error string, nothing processed, no link
IsColumnNotFound(out) ==
  /\ out.kind = "text"
  /\ out.msg \in {"column_not_found", "column_not_found_plain"}
  /\ ~out.processed_csv_data.def
  /\ ~out.download_link.def

PayloadAccepted == validateCSVData(RunsOf(input.csv_data)).valid

-----------------------------------------------------------------------------
(* Column run: CSVDataProcessor._call invoked for an operation on the      *)
(* column a of a table a,b, then again on the column negated               *)

MaxColumnCells == 3

\* cells of the target column: empty, blank, text, numbers
ColumnCells == { <<>>, <<SP>>, <<"x">>, <<"1">>, <<"3">>, <<"-", "1">> }

Scenario2 == <<"a", COMMA, "b", NL, "1", COMMA, "x", NL, COMMA, "y", NL, "3", COMMA, "z">>
Scenario3 == <<"a", COMMA, "b", NL, "1", COMMA, "y", NL, "2", COMMA, "y", NL, "3", COMMA, "y", NL, "4", COMMA, "y", NL, "1", "0", "0", COMMA, "y">>

\* header a,b and a row c,y for each cell c
ColumnPayload(cells) ==
  Join(<<<<"a", COMMA, "b">>>> \o [i \in 1..Len(cells) |-> cells[i] \o <<COMMA, "y">>], <<NL>>)

ColumnPayloads ==
  { ColumnPayload(f) : f \in UNION { [1..k -> ColumnCells] : k \in 0..MaxColumnCells } }
  \cup { Scenario2, Scenario3 }

Threshold(n, d) == Some([num |-> n, den |-> d])

\* condition, method and threshold: absent, empty or zero, and usable
ColumnParams(op) ==
  IF op = "filter"
  THEN { <<c, None, None>> : c \in {None, Some(<<>>), Some(<<"1">>)} }
  ELSE IF op = "clean_missing"
  THEN { <<None, m, None>> : m \in {None, Some(<<>>), Some(DROP), Some(MEAN)} }
  ELSE IF op = "detect_outliers"
  THEN { <<None, None, t>> :
           t \in {None, Threshold(0, 1), Threshold(1, 2), Threshold(3, 2), Threshold(10, 1)} }
  ELSE { <<None, None, None>> }

InitColumn ==
  /\ pc = "column"
  /\ RoundTripIdle /\ ValidatorIdle /\ PostIdle /\ ToolIdle /\ EngineIdle /\ ConcurrentIdle
  /\ ScannerIdle /\ LimiterIdle /\ UploadIdle

\* a caller invokes a column operation
InvokeColumn ==
  /\ pc = "column" /\ calls = 0
  /\ \E csv \in ColumnPayloads,
        op \in {"filter", "summarize", "clean_missing", "detect_outliers"},
        col \in {None, Some(<<"a">>)} :
       \E p \in ColumnParams(op) :
         LET in == Input(csv, op, col, p[1], p[2], p[3], None, None)
         IN Apply(in, _call(in))
  /\ UNCHANGED <<scan, now, ticks, limits, last, logged, uploaded, fault, reqs, requests, pc, headers, data, csvText, parsed, raw, verdict, body, csvData, response>>

\* the cell of a number with its sign flipped; other cells as they are
NegatedCell(cell) ==
  IF Number(cell).nan \/ cell = <<>> \/ Number(cell).v = 0 THEN cell
  ELSE IF Head(cell) = "-" THEN Tail(cell)
  ELSE <<"-">> \o cell

\* the payload of a table with every number of its first column negated
NegatedPayload(csv) ==
  LET table == parseCSV(csv)
  IN formatCSV(table.headers,
               [r \in 1..Len(table.data) |->
                  [table.data[r] EXCEPT ![1] = NegatedCell(table.data[r][1])]])

\* after detect_outliers the caller has the negated column scanned
NegateRerun ==
  /\ pc = "column" /\ calls = 1
  /\ input.operation = "detect_outliers"
  /\ result.msg = "outliers"
  /\ LET in == [input EXCEPT !.csv_data = NegatedPayload(input.csv_data)]
     IN Apply(in, _call(in))
  /\ UNCHANGED <<scan, now, ticks, limits, last, logged, uploaded, fault, reqs, requests, pc, headers, data, csvText, parsed, raw, verdict, body, csvData, response>>

NextColumn == InvokeColumn \/ NegateRerun

SpecColumn == InitColumn /\ [][NextColumn]_vars

-----------------------------------------------------------------------------
(* Properties of the column run                                            *)

\* the cells of column a of the payload of the call, and of the call before
TargetCells == [r \in 1..Len(parseCSV(input.csv_data).data) |->
                  parseCSV(input.csv_data).data[r][1]]
PrevTargetCells == [r \in 1..Len(parseCSV(prev.input.csv_data).data) |->
                      parseCSV(prev.input.csv_data).data[r][1]]

IsBlankCell(cell) == \A i \in 1..Len(cell) : cell[i] = SP
HoldsNumber(cell) == ~IsBlankCell(cell) /\ ~Number(cell).nan
NumbersOf(cells) ==
  [i \in 1..Len(SelectSeq(cells, HoldsNumber)) |-> Number(SelectSeq(cells, HoldsNumber)[i]).v]

\* the operation op has been called for column a
CalledOnColumn(op) ==
  /\ calls >= 1
  /\ input.operation = op
  /\ input.column = Some(<<"a">>)

RequiredParameter ==
  IF input.operation = "filter" THEN input.condition
  ELSE IF input.operation = "clean_missing" THEN input.method
  ELSE input.threshold

\* C11: filter, clean_missing and detect_outliers return the
\* missing-parameter error string exactly when column or their second
\* required parameter (condition, method, threshold) was not supplied; with
\* both supplied, a threshold of 0 and an empty condition or method
\* included, the operation runs.
C11_MissingParameterError ==
  (/\ calls >= 1
   /\ input.operation \in {"filter", "clean_missing", "detect_outliers"}
   /\ input.column \in {None, Some(<<"a">>)})
  => (result.msg = "invalid_or_missing_parameters"
        <=> ~(input.column.def /\ RequiredParameter.def))

\* the k-th smallest of a sequence of numbers
KthSmallest(values, k) ==
  CHOOSE v \in {values[i] : i \in 1..Len(values)} :
    /\ Cardinality({i \in 1..Len(values) : values[i] < v}) < k
    /\ Cardinality({i \in 1..Len(values) : values[i] <= v}) >= k

\* the median as the fraction <<numerator, denominator>>
MiddleOf(values) ==
  IF Len(values) % 2 = 0
  THEN <<KthSmallest(values, Len(values) \div 2)
           + KthSmallest(values, Len(values) \div 2 + 1), 2>>
  ELSE <<KthSmallest(values, (Len(values) + 1) \div 2), 1>>


\* C12: summarize takes the numeric branch if and only if every
\* non-empty cell of the column parses as a number, a column with a
\* non-empty non-numeric cell gets the categorical summary, and the numeric
\* median is the middle value of the sorted values (the average of the two
\* middle values for an even count).
C12_NumericIffAll ==
  CalledOnColumn("summarize")
  => /\ result.msg = "summary_numeric"
          <=> \A i \in 1..Len(TargetCells) :
                ~IsBlankCell(TargetCells[i]) => HoldsNumber(TargetCells[i])
     /\ result.msg \in {"summary_numeric", "summary_categorical"}
     /\ result.msg = "summary_numeric"
          => result.info.median = MiddleOf(NumbersOf(TargetCells))

\* detect_outliers has been called for column a with a threshold it accepts
OutliersScanned ==
  /\ CalledOnColumn("detect_outliers")
  /\ input.threshold.def /\ input.threshold.v.num # 0

\* C13: detect_outliers on a column in which no cell holds a number (every
\* cell is text or empty) returns the 'does not contain numeric values'
\* message, never a statistics block; empty cells are not counted among the
\* numeric values.
C13_NotNumericMessage ==
  OutliersScanned
  => /\ (\A i \in 1..Len(TargetCells) : ~HoldsNumber(TargetCells[i]))
          => result.msg = "not_numeric"
     /\ result.msg = "outliers" => result.info.total = Len(NumbersOf(TargetCells))

\* |v - mean| > threshold * stddev for the population mean and standard
\* deviation of values: with n values of sum S, n * (n*v - S)^2 * den^2 >
\* num^2 * sum of (n*x - S)^2
Flagged(v, values, t) ==
  LET n == Len(values)
      S == Sum(values)
      SS == Sum([i \in 1..n |-> (n * values[i] - S) * (n * values[i] - S)])
  IN n * (n * v - S) * (n * v - S) * t.den * t.den > t.num * t.num * SS

FlaggedOf(values, t) == SelectSeq(values, LAMBDA v : Flagged(v, values, t))

FirstFive(s) == SubSeq(s, 1, IF Len(s) < 5 THEN Len(s) ELSE 5)

\* C14: detect_outliers flags exactly the numeric values v of the column
\* with |v - mean| > threshold * stddev (population mean and standard
\* deviation of the numeric values of the column) and reports their number;
\* for 1, 2, 3, 4, 100 it flags exactly 100 at threshold 1.5 and nothing at
\* threshold 10.
C14_FlagsBeyondThreshold ==
  /\ (OutliersScanned /\ Len(NumbersOf(TargetCells)) > 0)
     => /\ result.msg = "outliers"
        /\ result.info.detected =
             Len(FlaggedOf(NumbersOf(TargetCells), input.threshold.v))
        /\ result.info.values =
             FirstFive(FlaggedOf(NumbersOf(TargetCells), input.threshold.v))
  /\ (OutliersScanned /\ input.csv_data = Scenario3)
     => IF input.threshold.v = [num |-> 3, den |-> 2]
        THEN result.info.detected = 1 /\ result.info.values = <<100>>
        ELSE input.threshold.v = [num |-> 10, den |-> 1]
               => result.info.detected = 0 /\ result.info.values = <<>>

\* C15: outlier detection symmetry. With every value of the column negated
\* and the threshold kept, detect_outliers flags the negations of the values
\* it flagged before, in the same order, and reports the same counts.
C15_NegationSymmetry ==
  (/\ calls = 2
   /\ CalledOnColumn("detect_outliers")
   /\ prev.input.operation = "detect_outliers"
   /\ prev.result.msg = "outliers"
   /\ input.threshold = prev.input.threshold
   /\ Len(TargetCells) = Len(PrevTargetCells)
   /\ \A i \in 1..Len(TargetCells) :
        IF HoldsNumber(PrevTargetCells[i])
        THEN /\ HoldsNumber(TargetCells[i])
             /\ Number(TargetCells[i]).v = 0 - Number(PrevTargetCells[i]).v
        ELSE TargetCells[i] = PrevTargetCells[i])
  => /\ result.msg = "outliers"
     /\ result.info.total = prev.result.info.total
     /\ result.info.detected = prev.result.info.detected
     /\ result.info.values =
          [i \in 1..Len(prev.result.info.values) |-> 0 - prev.result.info.values[i]]

\* the column -1, 1, 3 and then 1, -1, -3 have been scanned, the two outer
\* values flagged each time
C15_Witness ==
  /\ calls = 2
  /\ CalledOnColumn("detect_outliers")
  /\ prev.result.msg = "outliers"
  /\ prev.result.info.values = <<0 - 1, 3>>
  /\ result.msg = "outliers"
  /\ result.info.values = <<1, 0 - 3>>

\* C16: clean_missing with method drop returns, in the original order,
\* exactly the rows whose cell of the column is neither empty nor
\* whitespace-only; missing plus remaining is the original row count. For
\* a,b / 1,x / ,y / 3,z and column a: 1 missing, 2 remaining, the row with
\* the empty a gone.
C16_DropKeepsPresentRows ==
  /\ (CalledOnColumn("clean_missing") /\ input.method = Some(DROP))
     => LET table == parseCSV(input.csv_data)
            present == SelectSeq(table.data, LAMBDA row : ~IsBlankCell(row[1]))
        IN /\ result.msg = "cleaned_drop"
           /\ result.processed_csv_data.def
           /\ parseCSV(result.processed_csv_data.v) =
                [headers |-> table.headers, data |-> present]
           /\ result.info.missing + result.info.remaining = Len(table.data)
           /\ result.info.remaining = Len(present)
           /\ result.info.original = Len(table.data)
  /\ (/\ CalledOnColumn("clean_missing") /\ input.method = Some(DROP)
      /\ input.csv_data = Scenario2)
     => /\ result.info.missing = 1
        /\ result.info.remaining = 2
        /\ parseCSV(result.processed_csv_data.v).data =
             << <<<<"1">>, <<"x">>>>, <<<<"3">>, <<"z">>>> >>

\* clean_missing drop has answered for a,b / 1,x / ,y / 3,z
C16_Witness ==
  /\ CalledOnColumn("clean_missing") /\ input.method = Some(DROP)
  /\ input.csv_data = Scenario2
  /\ result.msg = "cleaned_drop"

-----------------------------------------------------------------------------
(* Request run: POST sanitizes and validates the body, then the agent      *)
(* calls the request's CustomCSVDataProcessor                              *)

UploadWithDuplicates == <<"a", NL, "1", NL, "1">>
UploadWithoutDuplicates == <<"a", NL, "1">>
FILE_NAME == <<"d", ".", "c", "s", "v">>

\* csvData of a body: none, empty, blank, two clean tables, and payloads
\* with a script tag, a javascript: URI, eval( and an event-handler attribute
BodyCsvData ==
  { None, Some(<<>>), Some(<<SP>>),
    Some(UploadWithDuplicates), Some(UploadWithoutDuplicates),
    Some(<<"a", NL, "<", "S", "c", "r", "i", "p", "t", ">">>), Some(<<"a", NL, "j", "a", "v", "a", "s", "c", "r", "i", "p", "t", ":">>), Some(<<"a", NL, "e", "v", "a", "l", "(">>), Some(<<"o", "n", "i", "o", "n", "=", NL, "1">>) }

Bodies ==
  { [csvData |-> c, csvFileName |-> f, apiKey |-> k] :
      c \in BodyCsvData, f \in {None, Some(FILE_NAME)}, k \in {None, Some(<<"k">>)} }

\* csv_data as the agent passes it: empty, a file name, the sample name, a
\* payload of its own, a blank payload
AgentCsvData ==
  { <<>>, FILE_NAME, SAMPLE_DATA_CSV, <<"a", NL, "2", NL, "2">>, <<"a", NL, "2">>, <<SP>> }

InitPost ==
  /\ pc = "request"
  /\ RoundTripIdle /\ ValidatorIdle /\ PostIdle /\ ToolIdle /\ ConcurrentIdle
  /\ ScannerIdle /\ LimiterIdle /\ UploadIdle
  /\ fault \in BOOLEAN

\* POST without the csvData validation of lines 1180-1185
Post_Unvalidated ==
  /\ pc = "request"
  /\ \E b \in Bodies :
       LET sanitizedBody == sanitizeInputs(b)
       IN /\ body' = b
          /\ csvData' = sanitizedBody.csvData
          /\ trace' = trace
          /\ IF ~Truthy(sanitizedBody.apiKey)
             THEN /\ response' = [status |-> 400, error |-> "OpenAI API key is required"]
                  /\ pc' = "responded"
             ELSE /\ response' = response
                  /\ pc' = "agent"
  /\ UNCHANGED <<scan, now, ticks, limits, last, logged, uploaded, fault, reqs, requests, headers, data, csvText, parsed, raw, verdict, input, result, prev, calls>>

\* POST up to the start of the agent
Post ==
  /\ pc = "request"
  /\ \E b \in Bodies :
       LET sanitizedBody == sanitizeInputs(b)
           validation == validateCSVData(RunsOf(sanitizedBody.csvData.v))
       IN /\ body' = b
          /\ csvData' = sanitizedBody.csvData
          /\ IF ~Truthy(sanitizedBody.apiKey)
             THEN /\ response' = [status |-> 400, error |-> "OpenAI API key is required"]
                  /\ pc' = "responded"
                  /\ trace' = trace
             ELSE IF Truthy(sanitizedBody.csvData) /\ ~validation.valid
             THEN /\ response' = [status |-> 400, error |-> validation.error]
                  /\ pc' = "responded"
                  /\ trace' = <<Validated(sanitizedBody.csvData.v, FALSE)>>
             ELSE /\ response' = response
                  /\ pc' = "agent"
                  /\ trace' = IF Truthy(sanitizedBody.csvData)
                              THEN <<Validated(sanitizedBody.csvData.v, TRUE)>>
                              ELSE trace
  /\ UNCHANGED <<scan, now, ticks, limits, last, logged, uploaded, fault, reqs, requests, headers, data, csvText, parsed, raw, verdict, input, result, prev, calls>>

\* the agent calls the tool
ToolCall ==
  /\ pc = "agent" /\ calls = 0
  /\ \E csv \in AgentCsvData, op \in validOperations, col \in {None, Some(<<"a">>)} :
       \E p \in ParamsOf(op) :
         LET in == Input(csv, op, col, p[1], p[2], p[3], p[4], p[5])
         IN Apply(in, CustomCall(in, csvData, sanitizeInputs(body).csvFileName))
  /\ UNCHANGED <<scan, now, ticks, limits, last, logged, uploaded, fault, reqs, requests, pc, headers, data, csvText, parsed, raw, verdict, body, csvData, response>>

\* the agent asks for the download of the processed_csv_data returned
ToolDownload ==
  /\ pc = "agent" /\ calls >= 1 /\ calls < MaxCalls
  /\ result.processed_csv_data.def
  /\ LET in == [input EXCEPT !.operation = "download_data",
                             !.processed_data = result.processed_csv_data]
     IN Apply(in, CustomCall(in, csvData, sanitizeInputs(body).csvFileName))
  /\ UNCHANGED <<scan, now, ticks, limits, last, logged, uploaded, fault, reqs, requests, pc, headers, data, csvText, parsed, raw, verdict, body, csvData, response>>

\* the agent's answer is sent
Respond ==
  /\ pc = "agent"
  /\ pc' = "responded"
  /\ response' = [status |-> 200, error |-> ""]
  /\ UNCHANGED <<scan, now, ticks, limits, last, logged, uploaded, fault, reqs, requests, headers, data, csvText, parsed, raw, verdict, body, csvData,
                 input, result, prev, calls, trace>>

NextPost == Post \/ ToolCall \/ ToolDownload \/ Respond

SpecPost == InitPost /\ [][NextPost]_vars

-----------------------------------------------------------------------------
(* Properties of the request run                                           *)

Base64Value(d) == (CHOOSE k \in 1..Len(Base64Alphabet) : Base64Alphabet[k] = d) - 1

\* the bytes a base64 text decodes to
RECURSIVE Base64Decode(_)
Base64Decode(digits) ==
  IF Len(digits) < 4 THEN <<>>
  ELSE LET a == Base64Value(digits[1])
           b == Base64Value(digits[2])
           rest == Base64Decode(SubSeq(digits, 5, Len(digits)))
       IN IF digits[3] = "=" THEN <<a * 4 + b \div 16>>
          ELSE IF digits[4] = "="
          THEN <<a * 4 + b \div 16, (b % 16) * 16 + Base64Value(digits[3]) \div 4>>
          ELSE <<a * 4 + b \div 16,
                 (b % 16) * 16 + Base64Value(digits[3]) \div 4,
                 (Base64Value(digits[3]) % 4) * 64 + Base64Value(digits[4])>> \o rest

\* csv_data is empty or looks like a file name, and there is an upload to
\* put in its place
UploadSubstituted ==
  /\ Truthy(csvData)
  /\ \/ input.csv_data = <<>>
     \/ Trim(input.csv_data) = SAMPLE_DATA_CSV
     \/ EndsWith(input.csv_data, DOT_CSV) /\ ~Contains(input.csv_data, NL)

\* C5: on every path through the tool, the wrapper's included, the
\* download_link download_data returns decodes to processed_data when
\* processed_data is supplied and to csv_data (the upload put in its place
\* when csv_data is empty or a file name) otherwise.
C5_DownloadEncodes ==
  (/\ calls >= 1
   /\ input.operation = "download_data"
   /\ result.download_link.def)
  => Base64Decode(result.download_link.v.base64) =
       [i \in 1..Len(IF Truthy(input.processed_data) THEN input.processed_data.v
                     ELSE IF UploadSubstituted THEN csvData.v ELSE input.csv_data) |->
          CharCode((IF Truthy(input.processed_data) THEN input.processed_data.v
                    ELSE IF UploadSubstituted THEN csvData.v ELSE input.csv_data)[i])]

\* the payload the call works on: the upload when csv_data is empty or a
\* file name, else csv_data
WorkingPayload == IF UploadSubstituted THEN csvData.v ELSE input.csv_data

\* remove_duplicates has a payload it accepts, a column the table has (or
\* none), no runtime error, and two rows of one key to work on
HasDuplicateToRemove ==
  /\ ~fault
  /\ input.csv_data # <<>> \/ Truthy(csvData)
  /\ UploadSubstituted
       \/ ~(\/ Trim(input.csv_data) = SAMPLE_DATA_CSV
            \/ EndsWith(input.csv_data, DOT_CSV) /\ ~Contains(input.csv_data, NL))
  /\ validateCSVData(RunsOf(WorkingPayload)).valid
  /\ Truthy(input.column) => Contains(parseCSV(WorkingPayload).headers, input.column.v)
  /\ LET rows == parseCSV(WorkingPayload).data
     IN \E i \in 1..Len(rows), j \in 1..Len(rows) :
          i < j /\ KeyOf(rows[i]) = KeyOf(rows[j])

\* C18: on every path through the tool remove_duplicates returns a JSON
\* string with summary and processed_csv_data if and only if at least one
\* duplicate row was removed, and a plain string if and only if none was;
\* analyze, summarize, detect_outliers, visualize and generate_report never
\* return processed_csv_data.
C18_JsonIffRemoved ==
  /\ (calls >= 1 /\ input.operation = "remove_duplicates")
     => IF HasDuplicateToRemove
        THEN /\ result.kind = "json"
             /\ result.processed_csv_data.def
             /\ result.info.removed >= 1
        ELSE result.kind = "text" /\ ~result.processed_csv_data.def
  /\ (/\ calls >= 1
      /\ input.operation \in {"analyze", "summarize", "detect_outliers",
                              "visualize", "generate_report"})
     => ~result.processed_csv_data.def

\* remove_duplicates, given a file name, has deduped the upload and returned
\* the JSON object
C18_Witness ==
  /\ calls = 1
  /\ input.operation = "remove_duplicates"
  /\ input.csv_data = FILE_NAME
  /\ csvData = Some(UploadWithDuplicates)
  /\ result.kind = "json"
  /\ result.processed_csv_data.def

\* C19: every invocation of the tool, base or wrapper, returns a string and
\* propagates no exception; a runtime error raised inside an operation comes
\* back as the 'Error processing CSV data' string.
C19_AlwaysAString ==
  calls >= 1
  => /\ result.kind \in {"text", "json"}
     /\ (/\ fault
         /\ trace # <<>>
         /\ trace[Len(trace)] = [fn |-> "parseCSV", arg |-> WorkingPayload,
                                 ok |-> TRUE, call |-> calls]
         /\ result.msg \notin {"column_not_found", "no_duplicates_found"})
        => result.msg = "error_processing" /\ result.kind = "text"

\* an operation has raised a runtime error and the call has returned the
\* error string
C19_Witness ==
  /\ calls = 1
  /\ fault
  /\ input.operation = "summarize"
  /\ result.kind = "text"
  /\ result.msg = "error_processing"

ValidationErrorOf(text) ==
  [kind |-> "text", msg |-> "validation_error",
   info |-> [error |-> validateCSVData(RunsOf(text)).error],
   processed_csv_data |-> None, download_link |-> None]

C9_RejectedWhole ==
  (pc # "request" /\ Truthy(body.apiKey) /\ Truthy(body.csvData))
  => /\ (\E i \in 1..Len(dangerousPatterns) :
           Includes(LowerText(body.csvData.v), dangerousPatterns[i]))
          => response = [status |-> 400,
                         error |-> "CSV contains potentially unsafe content"]
     /\ pc = "agent" => csvData = body.csvData

-----------------------------------------------------------------------------
(* Concurrent run: requests in flight at once, their POST handlers and     *)
(* tool calls interleaved                                                  *)

MaxRequests == 2

\* a request: where its handler stands, its body, the csvData and
\* csvFileName constants of its POST invocation, its tool call, its response
NewRequest ==
  [pc |-> "request", body |-> NoBody, csvData |-> None, csvFileName |-> None,
   input |-> NoInput, result |-> NoResult, response |-> NoResponse]

ConcurrentBodies ==
  { [csvData |-> c, csvFileName |-> None, apiKey |-> k] :
      k \in { None, Some(<<"k">>) },
      c \in { None, Some(UploadWithDuplicates), Some(UploadWithoutDuplicates),
              Some(<<"a", NL, "e", "v", "a", "l", "(">>) } }

ConcurrentInputs ==
  { Input(csv, op, None, None, None, None, None, None) :
      csv \in { <<>>, <<"a", NL, "2", NL, "2">> },
      op \in { "analyze", "remove_duplicates", "download_data" } }

InitConcurrent ==
  /\ pc = "concurrent"
  /\ reqs = [i \in 1..MaxRequests |-> NewRequest]
  /\ requests = NoRequests
  /\ RoundTripIdle /\ ValidatorIdle /\ PostIdle /\ ToolIdle /\ EngineIdle
  /\ ScannerIdle /\ LimiterIdle /\ UploadIdle

\* a tool instance that reads the upload of the first request in flight
UploadOf_Shared(i) == reqs[1].csvData

\* the csvData the tool instance of request i has captured (1172, 1203)
UploadOf(i) == reqs[i].csvData

\* POST of request i up to the start of its agent (the rate limiter calls
\* of 1146-1157 are commented out)
PostOf(i) ==
  /\ reqs[i].pc = "request"
  /\ \E b \in ConcurrentBodies :
       LET sanitizedBody == sanitizeInputs(b)
           validation == validateCSVData(RunsOf(sanitizedBody.csvData.v))
           received == [reqs[i] EXCEPT !.body = b,
                                       !.csvData = sanitizedBody.csvData,
                                       !.csvFileName = sanitizedBody.csvFileName]
       IN reqs' =
            [reqs EXCEPT ![i] =
               IF ~Truthy(sanitizedBody.apiKey)
               THEN [received EXCEPT
                       !.pc = "responded",
                       !.response = [status |-> 400, error |-> "OpenAI API key is required"]]
               ELSE IF Truthy(sanitizedBody.csvData) /\ ~validation.valid
               THEN [received EXCEPT
                       !.pc = "responded",
                       !.response = [status |-> 400, error |-> validation.error]]
               ELSE [received EXCEPT !.pc = "agent"]]
  /\ UNCHANGED <<scan, now, ticks, limits, last, logged, uploaded, pc, headers, data, csvText, parsed, raw, verdict, body, csvData,
                 response, input, result, prev, calls, trace, fault, requests>>

\* the agent of request i calls its tool
ToolCallOf(i) ==
  /\ reqs[i].pc = "agent" /\ reqs[i].input = NoInput
  /\ \E in \in ConcurrentInputs :
       reqs' = [reqs EXCEPT
                  ![i].input = in,
                  ![i].result = CustomCall(in, UploadOf(i), reqs[i].csvFileName).ret]
  /\ UNCHANGED <<scan, now, ticks, limits, last, logged, uploaded, pc, headers, data, csvText, parsed, raw, verdict, body, csvData,
                 response, input, result, prev, calls, trace, fault, requests>>

\* the answer of request i is sent
RespondOf(i) ==
  /\ reqs[i].pc = "agent"
  /\ reqs' = [reqs EXCEPT ![i].pc = "responded",
                          ![i].response = [status |-> 200, error |-> ""]]
  /\ UNCHANGED <<scan, now, ticks, limits, last, logged, uploaded, pc, headers, data, csvText, parsed, raw, verdict, body, csvData,
                 response, input, result, prev, calls, trace, fault, requests>>

PostAny == \E i \in 1..MaxRequests : PostOf(i)
ToolCallAny == \E i \in 1..MaxRequests : ToolCallOf(i)
RespondAny == \E i \in 1..MaxRequests : RespondOf(i)

NextConcurrent == PostAny \/ ToolCallAny \/ RespondAny

SpecConcurrent == InitConcurrent /\ [][NextConcurrent]_vars

\* C20: engine invocations share no mutable state. Under every interleaving
\* of the handlers of the requests in flight, the result of a tool call is
\* the result that call gives alone on its own request (its input and its
\* own body's csvData and csvFileName), and the process-wide rate-limit map
\* is never written.
C20_NoSharedState ==
  /\ \A i \in 1..MaxRequests :
       reqs[i].input # NoInput
         => reqs[i].result =
              CustomCall(reqs[i].input,
                         sanitizeInputs(reqs[i].body).csvData,
                         sanitizeInputs(reqs[i].body).csvFileName).ret
  /\ \A i \in 1..MaxRequests :
       reqs[i].pc # "request"
         => /\ reqs[i].csvData = sanitizeInputs(reqs[i].body).csvData
            /\ reqs[i].csvFileName = sanitizeInputs(reqs[i].body).csvFileName
  /\ requests = NoRequests

\* two requests with different uploads have made the same tool call and got
\* different results, each that of its own upload
C20_Witness ==
  /\ reqs[1].pc = "responded" /\ reqs[2].pc = "responded"
  /\ reqs[1].body.csvData = Some(UploadWithDuplicates)
  /\ reqs[2].body.csvData = Some(UploadWithoutDuplicates)
  /\ reqs[1].input.operation = "remove_duplicates"
  /\ reqs[1].input = reqs[2].input
  /\ reqs[1].input.csv_data = <<>>
  /\ reqs[1].result.msg = "duplicates_removed"
  /\ reqs[2].result.msg = "no_duplicates_found"

-----------------------------------------------------------------------------
(* Report run: analyze, generate_report and remove_duplicates on tables of *)
(* two columns, the header names distinct or shared, the columns long      *)
(* enough for a value to lie beyond three standard deviations              *)

MaxReportRows == 11

ReportHeaders == { <<"a", COMMA, "b">>, <<"a", COMMA, "a">> }

\* the cells a column is filled with, and the cell of its last row
ReportFill == { <<>>, <<"0">> }
ReportLast == { <<>>, <<"0">>, <<"1", "0", "0">> }

\* a payload of n data rows: every row but the last holds fill1,fill2, the
\* last one last1,last2
ReportPayload(h, n, fill1, last1, fill2, last2) ==
  Join(<<h>> \o [r \in 1..n |-> IF r < n THEN fill1 \o <<COMMA>> \o fill2
                                       ELSE last1 \o <<COMMA>> \o last2],
       <<NL>>)

\* two rows that differ cell by cell, their cells holding the '|' character
PipePayload ==
  <<"a", COMMA, "b", NL, "x", PIPE, "y", COMMA, "z", NL, "x", COMMA, "y", PIPE, "z">>

ReportPayloads ==
  { ReportPayload(h, n, f1, l1, f2, l2) :
      h \in ReportHeaders, n \in {0, 1, 2, MaxReportRows},
      f1 \in ReportFill, l1 \in ReportLast, f2 \in ReportFill, l2 \in ReportLast }
  \cup { PipePayload }

InitReport ==
  /\ pc = "report"
  /\ RoundTripIdle /\ ValidatorIdle /\ PostIdle /\ ToolIdle /\ EngineIdle /\ ConcurrentIdle
  /\ ScannerIdle /\ LimiterIdle /\ UploadIdle

\* a caller has a table analyzed, reported on, or its duplicates removed
InvokeReport ==
  /\ pc = "report" /\ calls = 0
  /\ \E csv \in ReportPayloads, op \in {"analyze", "generate_report", "remove_duplicates"} :
       LET in == Input(csv, op, None, None, None, None, None, None)
       IN Apply(in, _call(in))
  /\ UNCHANGED <<scan, now, ticks, limits, last, logged, uploaded, fault, reqs, requests, pc, headers, data, csvText, parsed, raw, verdict, body, csvData, response>>

NextReport == InvokeReport

SpecReport == InitReport /\ [][NextReport]_vars

-----------------------------------------------------------------------------
(* Properties of the report run                                            *)

\* the table of the call, and the cells of its column at position c
ReportTable == parseCSV(input.csv_data)
CellsAt(c) == [r \in 1..Len(ReportTable.data) |-> ReportTable.data[r][c]]
BlankRows(c) == {r \in 1..Len(ReportTable.data) : IsBlankCell(ReportTable.data[r][c])}

\* analyze or generate_report has answered
Censused == calls >= 1 /\ result.msg \in {"analysis", "report"}

\* C21: missing-value census bounds. For every column c of the parsed
\* table, the missing-value count analyze and generate_report give for c is
\* at least 0, at most the number of data rows, and is the number of rows
\* whose cell in c is empty or whitespace-only.
C21_CensusBounds ==
  Censused
  => \A c \in 1..Len(ReportTable.headers) :
       LET count == result.info.missing[ReportTable.headers[c]]
       IN /\ 0 <= count /\ count <= Len(ReportTable.data)
          /\ count = Cardinality(BlankRows(c))

\* the column at position c is named among the potential outliers
NamedOutlier(c) ==
  \E k \in 1..Len(result.info.outliers) :
    result.info.outliers[k].column = ReportTable.headers[c]

\* C25: generate_report names a column as having potential outliers exactly
\* when one of the numeric values of that column's own cells, empty cells
\* left out, lies more than 3 standard deviations from their mean; this
\* also with several columns of one header name.
C25_ReportScansOwnCells ==
  (calls >= 1 /\ result.msg = "report")
  => \A c \in 1..Len(ReportTable.headers) :
       NamedOutlier(c)
         <=> FlaggedOf(NumbersOf(CellsAt(c)), [num |-> 3, den |-> 1]) # <<>>

\* two rows are equal cell by cell after trimming
SameCells(r1, r2) ==
  /\ Len(r1) = Len(r2)
  /\ \A c \in 1..Len(r1) : Trim(r1[c]) = Trim(r2[c])

\* the rows that repeat an earlier row cell by cell
RepeatedRows(rows) ==
  {i \in 1..Len(rows) : \E j \in 1..(i - 1) : SameCells(rows[j], rows[i])}

\* C27: a row is removed by remove_duplicates, or counted as a duplicate by
\* analyze and generate_report, only if an earlier row has the same trimmed
\* value in every column, whatever the cells hold, the '|' character
\* included.
C27_OnlyEqualRowsAreDuplicates ==
  /\ Censused => result.info.duplicates <= Cardinality(RepeatedRows(ReportTable.data))
  /\ (calls >= 1 /\ result.msg \in {"duplicates_removed", "duplicate_removal"})
       => result.info.removed <= Cardinality(RepeatedRows(ReportTable.data))

\* the columns the missing-values recommendation names
RecommendedForCleaning ==
  UNION { result.info.recommendations[k].columns :
            k \in {j \in 1..Len(result.info.recommendations) :
                     result.info.recommendations[j].recommend = "clean_missing"} }

\* C28: for a table of n header columns the census holds n counts, one per
\* column position, each the number of empty cells at that position, also
\* when columns share a header name; the missing-values recommendation
\* names a column exactly when its position has an empty cell.
C28_CensusPerPosition ==
  /\ Censused
     => /\ Cardinality(DOMAIN result.info.missing) = Len(ReportTable.headers)
        /\ \A c \in 1..Len(ReportTable.headers) :
             result.info.missing[ReportTable.headers[c]] = Cardinality(BlankRows(c))
  /\ (calls >= 1 /\ result.msg = "report")
     => \A c \in 1..Len(ReportTable.headers) :
          ReportTable.headers[c] \in RecommendedForCleaning <=> BlankRows(c) # {}

-----------------------------------------------------------------------------
(* Parser run: parseCSV applied to a text as it comes, its lines well      *)
(* formed or not                                                           *)

MaxParseChars == 5

ParseAlphabet == { "a", COMMA, QUOTE, NL, SP }

\* a header of three columns followed only by a line of two fields
ThreeThenTwo == <<"a", COMMA, "b", COMMA, "c", NL, "1", COMMA, "2">>

ParseTexts ==
  UNION { [1..k -> ParseAlphabet] : k \in 0..MaxParseChars } \cup { ThreeThenTwo }

InitParse ==
  /\ pc = "text"
  /\ csvText \in ParseTexts
  /\ headers = <<>> /\ data = <<>> /\ parsed = NoTable
  /\ ValidatorIdle /\ PostIdle /\ ToolIdle /\ EngineIdle /\ ConcurrentIdle
  /\ ScannerIdle /\ LimiterIdle /\ UploadIdle

ParseText ==
  /\ pc = "text"
  /\ parsed' = parseCSV(csvText)
  /\ pc' = "text_parsed"
  /\ UNCHANGED <<scan, now, ticks, limits, last, logged, uploaded, fault, reqs, requests, headers, data, csvText, raw, verdict, body, csvData, response,
                 input, result, prev, calls, trace>>

NextParse == ParseText

SpecParse == InitParse /\ [][NextParse]_vars

\* the lines of the text, and the data lines that have as many fields as
\* the header line
TextLines == Split(Trim(csvText), NL)
WellFormed ==
  {i \in 2..Len(TextLines) : Len(parseCsvRow(TextLines[i])) = Len(parseCsvRow(TextLines[1]))}
\* the r-th well-formed line
WellFormedLine(r) ==
  CHOOSE i \in WellFormed : Cardinality({j \in WellFormed : j <= i}) = r

\* C22: after parseCSV every data row has headers.length cells; the data
\* lines with another field count are dropped, every other line is kept, in
\* the original order, with the cells it parses to by itself; a header a,b,c
\* followed only by a line of two fields gives no data row.
C22_MalformedLinesDropped ==
  pc = "text_parsed"
  => /\ \A r \in 1..Len(parsed.data) : Len(parsed.data[r]) = Len(parsed.headers)
     /\ Len(parsed.data) = Cardinality(WellFormed)
     /\ \A r \in 1..Len(parsed.data) :
          parsed.data[r] = parseCsvRow(TextLines[WellFormedLine(r)])
     /\ csvText = ThreeThenTwo
          => parsed = [headers |-> << <<"a">>, <<"b">>, <<"c">> >>, data |-> <<>>]

\* a line of two fields under a header of one column has been dropped and
\* the line after it kept
C22_Witness ==
  /\ pc = "text_parsed"
  /\ csvText = <<"a", NL, COMMA, NL, "a">>
  /\ parsed = [headers |-> << <<"a">> >>, data |-> << << <<"a">> >> >>]

\* C24: parseCSV of a completely empty document returns headers = [] and
\* rows = []; parseCSV of a document of one line returns the parsed headers
\* and rows = [].
C24_EmptyAndHeaderOnly ==
  pc = "text_parsed"
  => /\ csvText = <<>> => parsed = [headers |-> <<>>, data |-> <<>>]
     /\ (csvText # <<>> /\ Len(TextLines) = 1)
          => parsed = [headers |-> parseCsvRow(TextLines[1]), data |-> <<>>]

-----------------------------------------------------------------------------
(* Scanner run: the loop of parseCsvRow, one character at a time           *)

MaxRowChars == 5

RowAlphabet == { "a", COMMA, QUOTE, SP }

RowStrings == UNION { [1..k -> RowAlphabet] : k \in 0..MaxRowChars }

InitScan ==
  /\ pc = "scan"
  /\ \E row \in RowStrings : scan = [NoScan EXCEPT !.rowString = row]
  /\ RoundTripIdle /\ ValidatorIdle /\ PostIdle /\ ToolIdle /\ EngineIdle /\ ConcurrentIdle
  /\ LimiterIdle /\ UploadIdle

\* a loop body that appends the quote of an escape and does not skip the
\* quote after it
ScanStep_NoSkip(s) ==
  LET char == s.rowString[s.i + 1]
  IN IF char = QUOTE
     THEN IF s.inQuotes /\ s.i + 2 <= Len(s.rowString) /\ s.rowString[s.i + 2] = QUOTE
          THEN [s EXCEPT !.currentField = Append(@, QUOTE), !.i = @ + 1]
          ELSE [s EXCEPT !.inQuotes = ~@, !.i = @ + 1]
     ELSE IF char = COMMA /\ ~s.inQuotes
     THEN [s EXCEPT !.result = Append(@, Trim(s.currentField)),
                    !.currentField = <<>>, !.i = @ + 1]
     ELSE [s EXCEPT !.currentField = Append(@, char), !.i = @ + 1]

\* one turn of the for loop (599-615), the i++ of the loop included; i is
\* the 0-based index of the code
ScanStep(s) ==
  LET char == s.rowString[s.i + 1]
  IN IF char = QUOTE
     THEN IF s.inQuotes /\ s.i + 2 <= Len(s.rowString) /\ s.rowString[s.i + 2] = QUOTE
          THEN [s EXCEPT !.currentField = Append(@, QUOTE), !.i = @ + 2]
          ELSE [s EXCEPT !.inQuotes = ~@, !.i = @ + 1]
     ELSE IF char = COMMA /\ ~s.inQuotes
     THEN [s EXCEPT !.result = Append(@, Trim(s.currentField)),
                    !.currentField = <<>>, !.i = @ + 1]
     ELSE [s EXCEPT !.currentField = Append(@, char), !.i = @ + 1]

ScanChar ==
  /\ pc = "scan" /\ ~scan.done /\ scan.i < Len(scan.rowString)
  /\ scan' = ScanStep(scan)
  /\ UNCHANGED <<now, ticks, limits, last, logged, uploaded, fault, reqs, requests, pc, headers, data, csvText, parsed, raw, verdict, body, csvData,
                 response, input, result, prev, calls, trace>>

\* the loop is left and the last field pushed (616-617)
ScanReturn ==
  /\ pc = "scan" /\ ~scan.done /\ scan.i >= Len(scan.rowString)
  /\ scan' = [scan EXCEPT !.result = Append(@, Trim(scan.currentField)), !.done = TRUE]
  /\ UNCHANGED <<now, ticks, limits, last, logged, uploaded, fault, reqs, requests, pc, headers, data, csvText, parsed, raw, verdict, body, csvData,
                 response, input, result, prev, calls, trace>>

NextScan == ScanChar \/ ScanReturn

SpecScan == InitScan /\ [][NextScan]_vars

\* the character the scanner is at, and the one after it
ScanAt == scan.rowString[scan.i + 1]
ScanAtQuote == scan.i < Len(scan.rowString) /\ ScanAt = QUOTE
QuoteFollows ==
  scan.i + 2 <= Len(scan.rowString) /\ scan.rowString[scan.i + 2] = QUOTE

\* what a turn of the loop may do
EmitsQuote ==
  /\ scan'.currentField = Append(scan.currentField, QUOTE)
  /\ scan'.i = scan.i + 2
  /\ scan'.inQuotes = scan.inQuotes /\ scan'.result = scan.result
Toggles ==
  /\ scan'.inQuotes = ~scan.inQuotes
  /\ scan'.currentField = scan.currentField
  /\ scan'.i = scan.i + 1 /\ scan'.result = scan.result
EndsField == scan'.result = Append(scan.result, Trim(scan.currentField))
CommaRule ==
  (scan.i < Len(scan.rowString) /\ ScanAt = COMMA)
  => IF scan.inQuotes
     THEN scan'.result = scan.result /\ scan'.currentField = Append(scan.currentField, COMMA)
     ELSE EndsField /\ scan'.currentField = <<>>

\* C23 as stated: a double quote immediately followed by another double
\* quote emits one literal quote and advances two positions whatever the
\* inside-quotes state, any other double quote toggles the flag and emits
\* nothing, a comma ends the field only while not inside quotes.
C23_EscapeInAnyState ==
  [][ /\ (ScanAtQuote /\ QuoteFollows) => EmitsQuote
      /\ (ScanAtQuote /\ ~QuoteFollows) => Toggles
      /\ CommaRule ]_vars

\* C23: a double quote met inside quotes and immediately followed by another
\* double quote emits one literal quote and advances two positions; any
\* other double quote toggles the inside-quotes flag and emits nothing; a
\* comma ends the field only while not inside quotes.
C23_EscapeInsideQuotes ==
  [][ /\ (ScanAtQuote /\ scan.inQuotes /\ QuoteFollows) => EmitsQuote
      /\ (ScanAtQuote /\ ~(scan.inQuotes /\ QuoteFollows)) => Toggles
      /\ CommaRule ]_vars

\* the row of four quotes has been scanned: the first opened the quotes, the
\* second and third gave one literal quote, the fourth closed them
C23_Witness ==
  /\ scan.done
  /\ scan.rowString = <<QUOTE, QUOTE, QUOTE, QUOTE>>
  /\ scan.result = << <<QUOTE>> >>

\* the loop, run to its end, returns what parseCsvRow returns
ScanIsParseCsvRow == scan.done => scan.result = parseCsvRow(scan.rowString)

-----------------------------------------------------------------------------
(* Limiter run: isAllowed, logRequest and cleanup of rateLimiter called as *)
(* the clock advances; a request is logged only right after isAllowed      *)
(* returned true for its caller                                            *)

MaxTicks == 3
MaxLogged == 3

DefaultWindowMs == 60000
CleanupWindowMs == 24 * 60 * 60 * 1000

Callers == { "A", "B" }

\* the limits a deployment passes to isAllowed: one or two requests per
\* window, the window the default one or one of two days
LimitChoices ==
  { [maxRequests |-> m, windowMs |-> w] :
      m \in {1, 2}, w \in {DefaultWindowMs, 2 * CleanupWindowMs} }

\* by how much the clock advances between two calls
TickSteps == { 1, limits.windowMs - 1, limits.windowMs, CleanupWindowMs }

InitLimiter ==
  /\ pc = "limiter"
  /\ requests = NoRequests /\ reqs = <<>>
  /\ now = 0 /\ ticks = 0 /\ last = NoCall /\ logged = <<>>
  /\ limits \in LimitChoices
  /\ RoundTripIdle /\ ValidatorIdle /\ PostIdle /\ ToolIdle /\ EngineIdle
  /\ ScannerIdle /\ UploadIdle

\* this.requests.get(ip) || []
TimestampsOf(ip) == IF ip \in DOMAIN requests THEN requests[ip] ELSE <<>>

\* this.requests.set(ip, timestamps)
SetRequests(ip, timestamps) ==
  [k \in DOMAIN requests \cup {ip} |-> IF k = ip THEN timestamps ELSE requests[k]]

\* timestamps.filter(timestamp => now - timestamp < windowMs)
Recent(timestamps, windowMs) ==
  SelectSeq(timestamps, LAMBDA timestamp : now - timestamp < windowMs)

Tick ==
  /\ pc = "limiter" /\ ticks < MaxTicks
  /\ \E d \in TickSteps : now' = now + d
  /\ ticks' = ticks + 1
  /\ UNCHANGED <<scan, limits, last, logged, uploaded, fault, reqs, requests, pc, headers, data, csvText, parsed, raw, verdict, body,
                 csvData, response, input, result, prev, calls, trace>>

\* rateLimiter.isAllowed(ip, maxRequests, windowMs)
isAllowed(ip) ==
  /\ pc = "limiter"
  /\ LET recentRequests == Recent(TimestampsOf(ip), limits.windowMs)
     IN /\ requests' = SetRequests(ip, recentRequests)
        /\ last' = [fn |-> "isAllowed", ip |-> ip, at |-> now,
                    ret |-> Len(recentRequests) < limits.maxRequests]
  /\ UNCHANGED <<scan, now, ticks, limits, logged, uploaded, fault, reqs, pc, headers, data, csvText, parsed, raw, verdict, body,
                 csvData, response, input, result, prev, calls, trace>>

\* rateLimiter.logRequest(ip), called right after isAllowed(ip) returned true
logRequest(ip) ==
  /\ pc = "limiter" /\ Len(logged) < MaxLogged
  /\ last.fn = "isAllowed" /\ last.ip = ip /\ last.ret
  /\ requests' = SetRequests(ip, Append(TimestampsOf(ip), now))
  /\ logged' = Append(logged, [ip |-> ip, at |-> now])
  /\ last' = [fn |-> "logRequest", ip |-> ip, at |-> now, ret |-> TRUE]
  /\ UNCHANGED <<scan, now, ticks, limits, uploaded, fault, reqs, pc, headers, data, csvText, parsed, raw, verdict, body,
                 csvData, response, input, result, prev, calls, trace>>

\* rateLimiter.cleanup()
cleanup ==
  /\ pc = "limiter"
  /\ requests' =
       [ip \in {k \in DOMAIN requests : Recent(requests[k], CleanupWindowMs) # <<>>} |->
          Recent(requests[ip], CleanupWindowMs)]
  /\ last' = [fn |-> "cleanup", ip |-> "", at |-> now, ret |-> TRUE]
  /\ UNCHANGED <<scan, now, ticks, limits, logged, uploaded, fault, reqs, pc, headers, data, csvText, parsed, raw, verdict, body,
                 csvData, response, input, result, prev, calls, trace>>

IsAllowedAny == \E ip \in Callers : isAllowed(ip)
LogRequestAny == \E ip \in Callers : logRequest(ip)

NextLimiter == Tick \/ IsAllowedAny \/ LogRequestAny \/ cleanup

SpecLimiter == InitLimiter /\ [][NextLimiter]_vars

\* the logged requests of a caller that fall in the window of length
\* windowMs that starts at time from
LoggedIn(ip, from) ==
  {j \in 1..Len(logged) :
     /\ logged[j].ip = ip
     /\ from <= logged[j].at /\ logged[j].at < from + limits.windowMs}

\* the logged requests of a caller younger than windowMs at time at
YoungerAt(ip, at) ==
  {j \in 1..Len(logged) : logged[j].ip = ip /\ at - logged[j].at < limits.windowMs}

RateBounded ==
  /\ \A ip \in Callers : \A i \in 1..Len(logged) :
       Cardinality(LoggedIn(ip, logged[i].at)) <= limits.maxRequests
  /\ last.fn = "isAllowed"
       => (~last.ret <=> Cardinality(YoungerAt(last.ip, last.at)) >= limits.maxRequests)

-----------------------------------------------------------------------------
(* Chain run: an operation that returns processed_csv_data, then a call    *)
(* on the string it returned                                               *)

MaxChainLines == 2

\* data lines: plain, an empty first cell, a first cell whose quotes split
\* the word eval(, a quoted first cell with an escaped quote, another plain
ChainLines ==
  { <<"1", COMMA, "2">>,
    <<COMMA, "2">>,
    <<"e", QUOTE, "v", QUOTE, "a", "l", "(", COMMA, "2">>,
    <<QUOTE, "1", QUOTE, QUOTE, "x", QUOTE, COMMA, "2">>,
    <<"3", COMMA, "4">> }

ChainPayloads ==
  { Join(<<<<"a", COMMA, "b">>>> \o f, <<NL>>) :
      f \in UNION { [1..k -> ChainLines] : k \in 0..MaxChainLines } }

\* the operations that return processed_csv_data, with their parameters
ChainInputs ==
  { Input(csv, "filter", Some(<<"a">>), Some(<<"1">>), None, None, None, None) :
      csv \in ChainPayloads }
  \cup { Input(csv, "clean_missing", Some(<<"a">>), None, Some(DROP), None, None, None) :
           csv \in ChainPayloads }
  \cup { Input(csv, "remove_duplicates", None, None, None, None, None, None) :
           csv \in ChainPayloads }

InitChain ==
  /\ pc = "chain"
  /\ RoundTripIdle /\ ValidatorIdle /\ PostIdle /\ ToolIdle /\ EngineIdle /\ ConcurrentIdle
  /\ ScannerIdle /\ LimiterIdle /\ UploadIdle

\* the first call of the chain
InvokeChain ==
  /\ pc = "chain" /\ calls = 0
  /\ \E in \in ChainInputs : Apply(in, _call(in))
  /\ UNCHANGED <<scan, now, ticks, limits, last, logged, uploaded, fault, reqs, requests, pc, headers, data, csvText, parsed, raw, verdict, body, csvData, response>>

\* the caller threads the processed_csv_data into the next call
ChainNext ==
  /\ pc = "chain" /\ calls = 1
  /\ result.processed_csv_data.def
  /\ LET in == Input(result.processed_csv_data.v, "analyze",
                     None, None, None, None, None, None)
     IN Apply(in, _call(in))
  /\ UNCHANGED <<scan, now, ticks, limits, last, logged, uploaded, fault, reqs, requests, pc, headers, data, csvText, parsed, raw, verdict, body, csvData, response>>

NextChain == InvokeChain \/ ChainNext

SpecChain == InitChain /\ [][NextChain]_vars

\* the rows an operation is to produce from the rows of its table
ProducedRows(in, rows) ==
  IF in.operation = "filter"
  THEN SelectSeq(rows, LAMBDA row : row[1] # <<>> /\ Includes(row[1], in.condition.v))
  ELSE IF in.operation = "clean_missing"
  THEN SelectSeq(rows, LAMBDA row : ~IsBlankCell(row[1]))
  ELSE FirstOccurrences(rows)

\* the table the string a call returned stands for
Threaded(in, out) ==
  /\ validateCSVData(RunsOf(out.processed_csv_data.v)).valid
  /\ parseCSV(out.processed_csv_data.v) =
       [headers |-> parseCSV(in.csv_data).headers,
        data |-> ProducedRows(in, parseCSV(in.csv_data).data)]

\* C29: chaining. For a payload that passed validation, the
\* processed_csv_data that filter, clean_missing with method drop and
\* remove_duplicates return passes validateCSVData and parses to the headers
\* and rows the operation produced, and a following call given that string
\* works on that table.
C29_ChainedPayloadIsTheTable ==
  /\ (calls = 1 /\ result.processed_csv_data.def) => Threaded(input, result)
  /\ calls = 2
     => /\ Threaded(prev.input, prev.result)
        /\ result.msg = "analysis"
        /\ result.info.headers = parseCSV(prev.input.csv_data).headers
        /\ result.info.rows = Len(ProducedRows(prev.input, parseCSV(prev.input.csv_data).data))

-----------------------------------------------------------------------------
(* Upload run: a file passes the client-side check of handleCSVUploaded    *)
(* (components/ChatWindow.tsx) and what the client keeps is validated by   *)
(* the server's validateCSVData                                            *)

MaxUploadPieces == 3

ClientMaxSizeMB == 10
ClientMaxColumns == 500
ClientMaxLines == 100000
ClientSampleSize == 100

\* fileName.lastIndexOf('.'), 0-based, -1 when there is no dot
LastIndexOf(s, c) ==
  IF \E i \in 1..Len(s) : s[i] = c
  THEN (CHOOSE i \in 1..Len(s) : s[i] = c /\ \A j \in (i + 1)..Len(s) : s[j] # c) - 1
  ELSE -1

\* fileName.substring(fileName.lastIndexOf('.')).toLowerCase(): substring
\* takes a negative start as 0
FileExtension(fileName) ==
  LET start == IF LastIndexOf(fileName, ".") < 0 THEN 0 ELSE LastIndexOf(fileName, ".")
  IN LowerText(SubSeq(fileName, start + 1, Len(fileName)))

allowedExtensions == { <<".", "c", "s", "v">>, <<".", "t", "x", "t">> }

\* 1 if line number index (0 the header line) is among the sampled rows
\* and has another field count than the header, else 0
Malformed(index, commas, columnCount, sampleSize) ==
  IF index >= 1 /\ index <= sampleSize /\ commas + 1 # columnCount THEN 1 ELSE 0

\* how many of the lines index..(index + count - 1), each of one field, are
\* sampled rows with another field count than the header
MalformedEmpty(index, count, columnCount, sampleSize) ==
  LET from == IF index < 1 THEN 1 ELSE index
      to == IF index + count - 1 > sampleSize THEN sampleSize ELSE index + count - 1
  IN IF columnCount # 1 /\ to >= from THEN to - from + 1 ELSE 0

\* the loop over lines[1..sampleSize] (327-333) on run-length encoded text:
\* index is the number of the line being read, commas the commas read in it
RECURSIVE MalformedRows(_, _, _, _, _)
MalformedRows(runs, index, commas, columnCount, sampleSize) ==
  IF runs = <<>> THEN Malformed(index, commas, columnCount, sampleSize)
  ELSE LET r == Head(runs) IN
    IF r.ch = NL
    THEN Malformed(index, commas, columnCount, sampleSize)
         + MalformedEmpty(index + 1, r.n - 1, columnCount, sampleSize)
         + MalformedRows(Tail(runs), index + r.n, 0, columnCount, sampleSize)
    ELSE MalformedRows(Tail(runs), index,
                       IF r.ch = COMMA THEN commas + r.n ELSE commas,
                       columnCount, sampleSize)

\* the literal patterns of sensitivePatterns, in lower case
sensitiveLiterals ==
  << <<"<", "s", "c", "r", "i", "p", "t">>,
     <<"j", "a", "v", "a", "s", "c", "r", "i", "p", "t", ":">>,
     <<"e", "v", "a", "l", "(">>,
     <<"o", "n", "e", "r", "r", "o", "r", "=">>,
     <<"$">> >>

\* /<%.*%>/i: the dot matches no line break
TemplateTest(text) ==
  \E i \in 1..Len(text), j \in 1..Len(text) :
    /\ i + 1 < j /\ j + 1 <= Len(text)
    /\ text[i] = "<" /\ text[i + 1] = "%" /\ text[j] = "%" /\ text[j + 1] = ">"
    /\ \A k \in (i + 2)..(j - 1) : text[k] # NL

\* handleCSVUploaded(csvContent, fileName): whether the file is taken, and
\* the csvData the client then holds
handleCSVUploaded(csvContent, fileName) ==
  LET refused == [fileName |-> fileName, accepted |-> FALSE, csvData |-> <<>>]
      trimmed == TrimRuns(csvContent)
      lineCount == CountChar(trimmed, NL) + 1
      columnCount == CountChar(FirstLine(trimmed), COMMA) + 1
      sampleSize == IF lineCount - 1 < ClientSampleSize THEN lineCount - 1
                    ELSE ClientSampleSize
      malformedRows == MalformedRows(trimmed, 0, 0, columnCount, sampleSize)
      text == LowerText(Expand(csvContent, PatternSpan(sensitiveLiterals)))
  IN IF FileExtension(fileName) \notin allowedExtensions THEN refused
     ELSE IF RunsLength(csvContent) > ClientMaxSizeMB * (1024 * 1024) THEN refused
     ELSE IF trimmed = <<>> THEN refused
     ELSE IF lineCount < 1 THEN refused
     ELSE IF columnCount = 0 THEN refused
     ELSE IF columnCount > ClientMaxColumns THEN refused
     ELSE IF lineCount > ClientMaxLines THEN refused
     ELSE IF 10 * malformedRows > sampleSize THEN refused
     ELSE IF \/ \E i \in 1..Len(sensitiveLiterals) : Includes(text, sensitiveLiterals[i])
             \/ TemplateTest(text)
     THEN refused
     ELSE [fileName |-> fileName, accepted |-> TRUE, csvData |-> trimmed]

FileNames == { <<"d", ".", "C", "S", "V">>, <<"d", ".", "e", "x", "e">>, <<"c", "s", "v">> }

\* what a file is put together from: single characters, runs that reach the
\* client's column, line and size ceilings, and the words the client or the
\* server takes for unsafe
UploadPieces ==
  { Rep("a", 1), Rep(COMMA, 1), Rep(NL, 1),
    Rep(COMMA, ClientMaxColumns - 1), Rep(COMMA, ClientMaxColumns),
    Rep(NL, ClientMaxLines - 1), Rep(NL, ClientMaxLines),
    Rep("a", ClientMaxSizeMB * (1024 * 1024)),
    RunsOf(<<"$">>),
    RunsOf(<<"<", "S", "c", "r", "i", "p", "t">>),
    RunsOf(<<"e", "v", "a", "l", "(">>),
    RunsOf(<<"f", "u", "n", "c", "t", "i", "o", "n", "(">>),
    RunsOf(<<"s", "e", "t", "T", "i", "m", "e", "o", "u", "t">>),
    RunsOf(<<"d", "o", "c", "u", "m", "e", "n", "t", ".">>),
    RunsOf(<<"o", "n", "e", "r", "r", "o", "r", "=">>),
    RunsOf(<<"<", "%", "a", "%", ">">>) }

InitUpload ==
  /\ pc = "upload"
  /\ \E k \in 0..MaxUploadPieces : \E f \in [1..k -> UploadPieces] : raw = Concat(f)
  /\ \E name \in FileNames : uploaded = [NoUpload EXCEPT !.fileName = name]
  /\ verdict = Valid
  /\ RoundTripIdle /\ PostIdle /\ ToolIdle /\ EngineIdle /\ ConcurrentIdle
  /\ ScannerIdle /\ LimiterIdle

\* the file is handed to handleCSVUploaded
HandleUpload ==
  /\ pc = "upload"
  /\ uploaded' = handleCSVUploaded(raw, uploaded.fileName)
  /\ pc' = "uploaded"
  /\ UNCHANGED <<scan, now, ticks, limits, last, logged, fault, reqs, requests, headers, data, csvText, parsed, raw, verdict, body, csvData,
                 response, input, result, prev, calls, trace>>

\* the csvData the client holds reaches validateCSVData
ValidateUpload ==
  /\ pc = "uploaded" /\ uploaded.accepted
  /\ verdict' = validateCSVData(uploaded.csvData)
  /\ pc' = "upload_validated"
  /\ UNCHANGED <<scan, now, ticks, limits, last, logged, uploaded, fault, reqs, requests, headers, data, csvText, parsed, raw, body, csvData,
                 response, input, result, prev, calls, trace>>

NextUpload == HandleUpload \/ ValidateUpload

SpecUpload == InitUpload /\ [][NextUpload]_vars

\* C30: every payload the client-side check of handleCSVUploaded accepts is
\* accepted by the server's validateCSVData; the server's size, column and
\* row ceilings are strictly larger than the client's.
C30_ServerAcceptsWhatClientAccepts ==
  /\ ClientMaxSizeMB < MaxSizeMB
  /\ ClientMaxColumns < MaxColumns
  /\ ClientMaxLines < MaxLines
  /\ pc = "upload_validated" => verdict = Valid

=============================================================================
